---- MODULE Spec2Model ----
(***************************************************************************)
(* Verification model of the strip-whitespace transformation core:        *)
(*   crates/core/src/strip.rs  (gap detection, rotation, edit collection,  *)
(*                              edit application)                          *)
(*   crates/core/src/edit.rs   (edit model and validator)                  *)
(*                                                                         *)
(* Byte strings are sequences of byte values; every offset is a 0-based    *)
(* byte offset as in the source, so the byte at offset i of s is s[i+1].   *)
(***************************************************************************)
EXTENDS Integers, Sequences, FiniteSets, TLC

(***************************************************************************)
(* Bytes                                                                   *)
(***************************************************************************)
LF == 10
CR == 13
SP == 32
TAB == 9

Lt == 60
Gt == 62
Slash == 47
Dash == 45
Bang == 33
LBrace == 123
RBrace == 125

\* Option::None of an Option<usize>.
NoOffset == -1

None == "None"

Min(a, b) == IF a <= b THEN a ELSE b
\* s[from..to) with 0-based offsets, as a Rust slice.
Slice(s, from, to) == IF to <= from THEN <<>> ELSE SubSeq(s, from + 1, to)

\* bytes.get(from..to) == Some(expected)
RangeIs(s, from, to, expected) ==
    from >= 0 /\ from <= to /\ to <= Len(s) /\ Slice(s, from, to) = expected

RECURSIVE Concat(_)
Concat(ss) == IF ss = <<>> THEN <<>> ELSE Head(ss) \o Concat(Tail(ss))

\* The ascending sequence of the elements of a finite set of integers.
RECURSIVE SortAsc(_)
SortAsc(S) ==
    IF S = {} THEN <<>>
    ELSE LET m == CHOOSE x \in S : \A y \in S : x <= y
         IN <<m>> \o SortAsc(S \ {m})

\* All sequences over S of length 0..n.
RECURSIVE SeqsUpTo(_, _)
SeqsUpTo(S, n) ==
    IF n = 0 THEN {<<>>}
    ELSE LET shorter == SeqsUpTo(S, n - 1)
         IN shorter \cup {Append(s, x) : s \in {t \in shorter : Len(t) = n - 1}, x \in S}

(***************************************************************************)
(* UTF-8 scalars and char::is_whitespace                                   *)
(***************************************************************************)
\* Number of bytes of the scalar whose first byte is b (valid UTF-8 input).
ScalarLen(b) ==
    IF b < 128 THEN 1
    ELSE IF b < 224 THEN 2
    ELSE IF b < 240 THEN 3
    ELSE 4

\* The code point of the scalar starting at 0-based offset i of s.
CodePointAt(s, i) ==
    LET b == s[i + 1]
    IN IF b < 128 THEN b
       ELSE IF b < 224 THEN (b - 192) * 64 + (s[i + 2] - 128)
       ELSE IF b < 240 THEN (b - 224) * 4096 + (s[i + 2] - 128) * 64 + (s[i + 3] - 128)
       ELSE (b - 240) * 262144 + (s[i + 2] - 128) * 4096
            + (s[i + 3] - 128) * 64 + (s[i + 4] - 128)

\* Rust's char::is_whitespace: the Unicode White_Space property.
IsWhitespace(cp) ==
    \/ cp \in 9..13
    \/ cp = 32
    \/ cp = 133
    \/ cp = 160
    \/ cp = 5760
    \/ cp \in 8192..8202
    \/ cp \in {8232, 8233, 8239, 8287, 12288}

\* gap.chars().all(|c| c.is_whitespace())
RECURSIVE AllWhitespaceFrom(_, _)
AllWhitespaceFrom(s, i) ==
    IF i >= Len(s) THEN TRUE
    ELSE /\ IsWhitespace(CodePointAt(s, i))
         /\ AllWhitespaceFrom(s, i + ScalarLen(s[i + 1]))

AllWhitespace(s) == AllWhitespaceFrom(s, 0)

(***************************************************************************)
(* TrailingDelim                                                           *)
(***************************************************************************)
TrailingDelims == {"Gt", "SlashGt", "CommentEnd", "RBrace"}

\* TrailingDelim::bytes
DelimBytes(delim) ==
    CASE delim = "Gt" -> <<Gt>>
      [] delim = "SlashGt" -> <<Slash, Gt>>
      [] delim = "CommentEnd" -> <<Dash, Dash, Gt>>
      [] delim = "RBrace" -> <<RBrace>>

\* TrailingDelim::len
DelimLen(delim) == Len(DelimBytes(delim))

(***************************************************************************)
(* contains_blank_line                                                     *)
(***************************************************************************)
contains_blank_line_lf_only(ws) ==
    \E i \in 1..(Len(ws) - 1) : ws[i] = LF /\ ws[i + 1] = LF

contains_blank_line(ws) ==
    \/ \E i \in 1..(Len(ws) - 1) : ws[i] = LF /\ ws[i + 1] = LF
    \/ \E i \in 1..(Len(ws) - 3) :
          ws[i] = CR /\ ws[i + 1] = LF /\ ws[i + 2] = CR /\ ws[i + 3] = LF

(***************************************************************************)
(* rotate_delim_over_gap                                                   *)
(***************************************************************************)
\* Start of the final line within gap: i+1 for the last LF at offset i, else 0.
LastLineStart(gap) ==
    LET lfs == {i \in 0..(Len(gap) - 1) : gap[i + 1] = LF}
    IN IF lfs = {} THEN 0 ELSE (CHOOSE i \in lfs : \A j \in lfs : j <= i) + 1

max_steal_one(delim) == 1

max_steal(delim) == IF delim = "SlashGt" THEN 2 ELSE 1

\* A steal loop that takes the last bytes of the final line whatever they
\* are, space and tab or not.
RECURSIVE StealLoopAnyByte(_, _, _, _, _)
StealLoopAnyByte(gap, i, last_line_start, max, taken) ==
    IF i > last_line_start /\ Cardinality(taken) < max
    THEN StealLoopAnyByte(gap, i - 1, last_line_start, max, taken \cup {i - 1})
    ELSE taken

\* The while loop: walk back from i while the byte before i is space/tab, i is
\* on the final line and fewer than max bytes were taken.
RECURSIVE StealLoop(_, _, _, _, _)
StealLoop(gap, i, last_line_start, max, taken) ==
    IF i > last_line_start /\ Cardinality(taken) < max /\ gap[i] \in {SP, TAB}
    THEN StealLoop(gap, i - 1, last_line_start, max, taken \cup {i - 1})
    ELSE taken

\* The variant that never steals: steal_indices stays empty.
StealIndicesEmpty(delim, gap) == {}

\* steal_indices after sort_unstable, as a set of 0-based gap offsets.
StealIndices(delim, gap) ==
    LET last_line_start == LastLineStart(gap)
    IN IF max_steal(delim) > 0 /\ last_line_start < Len(gap)
       THEN StealLoop(gap, Len(gap), last_line_start, max_steal(delim), {})
       ELSE {}

\* The variant that deletes the stolen bytes instead of relocating them.
rotate_delim_over_gap_dropping(delim, gap) ==
    LET d == DelimLen(delim)
        kept == SortAsc((0..(Len(gap) - 1)) \ StealIndices(delim, gap))
        order == [k \in 1..Len(kept) |-> d + kept[k]] \o [k \in 1..d |-> k - 1]
        segment == DelimBytes(delim) \o gap
    IN [replacement |-> [k \in 1..Len(order) |-> segment[order[k] + 1]],
        input_offset_for_output |-> order]

\* Returns (replacement, input_offset_for_output); offsets are relative to the
\* input segment delim + gap.
rotate_delim_over_gap(delim, gap) ==
    LET d == DelimLen(delim)
        steal == StealIndices(delim, gap)
        stolen == SortAsc(steal)
        kept == SortAsc((0..(Len(gap) - 1)) \ steal)
        order == [k \in 1..Len(stolen) |-> d + stolen[k]]
                 \o [k \in 1..Len(kept) |-> d + kept[k]]
                 \o [k \in 1..d |-> k - 1]
        bytes == [k \in 1..Len(stolen) |-> gap[stolen[k] + 1]]
                 \o [k \in 1..Len(kept) |-> gap[kept[k] + 1]]
                 \o DelimBytes(delim)
    IN [replacement |-> bytes, input_offset_for_output |-> order]

(***************************************************************************)
(* rotate_prefix_over_gap                                                  *)
(***************************************************************************)
\* The variant that maps the gap bytes to the wrong segment offsets.
rotate_prefix_over_gap_shifted(prefix, gap) ==
    [replacement |-> prefix \o gap,
     input_offset_for_output |->
        [k \in 1..Len(prefix) |-> Len(gap) + (k - 1)]
        \o [k \in 1..Len(gap) |-> Len(prefix) + (k - 1)]]

\* Input segment gap + prefix, output prefix + gap.
rotate_prefix_over_gap(prefix, gap) ==
    [replacement |-> prefix \o gap,
     input_offset_for_output |->
        [k \in 1..Len(prefix) |-> Len(gap) + (k - 1)]
        \o [k \in 1..Len(gap) |-> k - 1]]

(***************************************************************************)
(* Concrete syntax trees                                                   *)
(*                                                                         *)
(* The tree-sitter parser is an external collaborator: the model takes the *)
(* tree as an input.  A tree is written as nested records                  *)
(* [kind, named, parts], a part being a child tree or [raw |-> bytes] for  *)
(* bytes that no child covers; Flatten lays it out as the source bytes and *)
(* the nodes in pre-order, each with its byte span and its parent.         *)
(***************************************************************************)
Raw(bytes) == [raw |-> bytes]
IsRaw(p) == "raw" \in DOMAIN p

Node(kind, parts) == [kind |-> kind, named |-> TRUE, parts |-> parts]
Leaf(kind, bytes) == Node(kind, <<Raw(bytes)>>)
\* An anonymous token node such as "{" or "}".
Token(bytes) == [kind |-> "token", named |-> FALSE, parts |-> <<Raw(bytes)>>]

RECURSIVE FlatNode(_, _, _, _)
RECURSIVE FlatParts(_, _, _, _)
\* The node gets index idx; its descendants follow it in pre-order.
FlatNode(tree, offset, parent, idx) ==
    LET inner == FlatParts(tree.parts, offset, idx, idx + 1)
    IN [bytes |-> inner.bytes,
        nodes |-> <<[kind |-> tree.kind, named |-> tree.named, start |-> offset,
                     end |-> offset + Len(inner.bytes), parent |-> parent]>>
                  \o inner.nodes]

FlatParts(parts, offset, parent, idx) ==
    IF parts = <<>> THEN [bytes |-> <<>>, nodes |-> <<>>]
    ELSE IF IsRaw(Head(parts))
    THEN LET rest == FlatParts(Tail(parts), offset + Len(Head(parts).raw), parent, idx)
         IN [bytes |-> Head(parts).raw \o rest.bytes, nodes |-> rest.nodes]
    ELSE LET child == FlatNode(Head(parts), offset, parent, idx)
             rest == FlatParts(Tail(parts), offset + Len(child.bytes), parent,
                               idx + Len(child.nodes))
         IN [bytes |-> child.bytes \o rest.bytes, nodes |-> child.nodes \o rest.nodes]

\* The root has index 1 and parent 0.
Flatten(tree) == FlatNode(tree, 0, 0, 1)

(***************************************************************************)
(* tree_sitter::Node / TreeCursor over the flattened tree                  *)
(***************************************************************************)
\* node.named_children(&mut cursor)
named_children(nodes, n) ==
    SortAsc({j \in 1..Len(nodes) : nodes[j].parent = n /\ nodes[j].named})

\* cursor.goto_first_child(): the child's index, or 0 when there is none.
goto_first_child(nodes, n) ==
    IF n < Len(nodes) /\ nodes[n + 1].parent = n THEN n + 1 ELSE 0

\* cursor.goto_next_sibling(): the sibling's index, or 0 when there is none.
goto_next_sibling(nodes, n) ==
    LET later == {j \in (n + 1)..Len(nodes) : nodes[j].parent = nodes[n].parent}
    IN IF nodes[n].parent = 0 \/ later = {} THEN 0
       ELSE CHOOSE j \in later : \A k \in later : j <= k

\* cursor.goto_parent(): the parent's index, or 0 at the root of the walk.
goto_parent(nodes, n) == nodes[n].parent

(***************************************************************************)
(* TrailingDelim::from_node and opener_prefix_end                          *)
(***************************************************************************)
RECURSIVE from_node(_, _)
from_node(nodes, n) ==
    LET kind == nodes[n].kind
    IN CASE kind \in {"start_tag", "end_tag"} -> "Gt"
         [] kind = "self_closing_tag" -> "SlashGt"
         [] kind = "comment" -> "CommentEnd"
         [] kind = "html_interpolation" -> "RBrace"
         [] kind = "element" ->
              LET ch == named_children(nodes, n)
              IN IF ch = <<>> THEN None ELSE from_node(nodes, ch[Len(ch)])
         [] OTHER -> None

RECURSIVE from_node_depth(_, _)
\* The number of activations of TrailingDelim::from_node that are live at
\* once during the call for n: the "element" arm calls from_node again for
\* the last named child before it returns.
from_node_depth(nodes, n) ==
    LET ch == named_children(nodes, n)
    IN IF nodes[n].kind = "element" /\ ch # <<>>
       THEN 1 + from_node_depth(nodes, ch[Len(ch)])
       ELSE 1

\* .find(..): the first index of seq that satisfies the test, or 0.
FirstOfKind(nodes, seq, kinds) ==
    LET hits == {k \in 1..Len(seq) : nodes[seq[k]].kind \in kinds}
    IN IF hits = {} THEN 0 ELSE seq[CHOOSE k \in hits : \A m \in hits : k <= m]

\* The start_tag / end_tag / self_closing_tag arm.
TagPrefixEnd(source, nodes, tag) ==
    LET start == nodes[tag].start
        tag_name == FirstOfKind(nodes, named_children(nodes, tag), {"tag_name"})
    IN IF ~RangeIs(source, start, start + 1, <<Lt>>) THEN NoOffset
       ELSE IF tag_name = 0 THEN NoOffset
       ELSE IF nodes[tag_name].end > start THEN nodes[tag_name].end
       ELSE NoOffset

opener_prefix_end(source, nodes, next) ==
    LET start == nodes[next].start
        kind == nodes[next].kind
    IN CASE kind = "html_interpolation" ->
              IF RangeIs(source, start, start + 1, <<LBrace>>) THEN start + 1 ELSE NoOffset
         [] kind = "comment" ->
              IF RangeIs(source, start, start + 4, <<Lt, Bang, Dash, Dash>>)
              THEN start + 4 ELSE NoOffset
         [] kind = "element" ->
              LET tag == FirstOfKind(nodes, named_children(nodes, next),
                                     {"start_tag", "self_closing_tag"})
              IN IF tag = 0 THEN NoOffset ELSE TagPrefixEnd(source, nodes, tag)
         [] kind \in {"start_tag", "end_tag", "self_closing_tag"} ->
              TagPrefixEnd(source, nodes, next)
         [] OTHER -> NoOffset

\* The activations of opener_prefix_end live at once during the call for
\* next: the "element" arm calls it once more, for the tag it found.
opener_prefix_end_depth(nodes, next) ==
    IF /\ nodes[next].kind = "element"
       /\ FirstOfKind(nodes, named_children(nodes, next),
                      {"start_tag", "self_closing_tag"}) # 0
    THEN 2 ELSE 1

(***************************************************************************)
(* collect_edits::process_container_gaps                                   *)
(***************************************************************************)
\* The edit of case 1: rotate prev's trailing delimiter right.
DelimEdit(delim, delim_pos, gap, gap_end) ==
    LET r == rotate_delim_over_gap(delim, gap)
    IN [start |-> delim_pos,
        end |-> gap_end,
        replacement |-> r.replacement,
        output_byte_to_input_byte |->
            [k \in 1..Len(r.input_offset_for_output) |->
                delim_pos + r.input_offset_for_output[k]],
        moved_delim_len |-> DelimLen(delim)]

\* The edit of case 2: rotate next's opener prefix left.
PrefixEdit(source, gap_start, gap_end, prefix_end, gap) ==
    LET r == rotate_prefix_over_gap(Slice(source, gap_end, prefix_end), gap)
    IN [start |-> gap_start,
        end |-> prefix_end,
        replacement |-> r.replacement,
        output_byte_to_input_byte |->
            [k \in 1..Len(r.input_offset_for_output) |->
                gap_start + r.input_offset_for_output[k]],
        moved_delim_len |-> 0]

\* Case 1 applies: prev has a trailing delimiter and its last bytes are it.
DelimApplies(source, nodes, prev) ==
    LET delim == from_node(nodes, prev)
    IN /\ delim # None
       /\ nodes[prev].end >= DelimLen(delim)
       /\ RangeIs(source, nodes[prev].end - DelimLen(delim), nodes[prev].end,
                  DelimBytes(delim))

\* config.preserve_blank_lines && contains_blank_line(gap)
SkipsBlankLine(config, gap) == config.preserve_blank_lines /\ contains_blank_line(gap)

\* The loop body with case 2 open to every kind of prev.
GapEditsAnyPrev(source, nodes, prev, next, config) ==
    LET gap_start == nodes[prev].end
        gap_end == nodes[next].start
        gap == Slice(source, gap_start, gap_end)
        delim == from_node(nodes, prev)
        prefix_end == opener_prefix_end(source, nodes, next)
    IN IF gap_start >= gap_end THEN <<>>
       ELSE IF gap = <<>> \/ ~AllWhitespace(gap) THEN <<>>
       ELSE IF SkipsBlankLine(config, gap) THEN <<>>
       ELSE IF DelimApplies(source, nodes, prev)
       THEN <<DelimEdit(delim, nodes[prev].end - DelimLen(delim), gap, gap_end)>>
       ELSE IF prefix_end # NoOffset /\ prefix_end > gap_end
       THEN <<PrefixEdit(source, gap_start, gap_end, prefix_end, gap)>>
       ELSE <<>>

\* The loop body for one pair of adjacent named children: the edits it pushes.
GapEdits(source, nodes, prev, next, config) ==
    LET gap_start == nodes[prev].end
        gap_end == nodes[next].start
        gap == Slice(source, gap_start, gap_end)
        delim == from_node(nodes, prev)
        prefix_end == opener_prefix_end(source, nodes, next)
    IN IF gap_start >= gap_end THEN <<>>
       ELSE IF gap = <<>> \/ ~AllWhitespace(gap) THEN <<>>
       ELSE IF SkipsBlankLine(config, gap) THEN <<>>
       ELSE IF DelimApplies(source, nodes, prev)
       THEN <<DelimEdit(delim, nodes[prev].end - DelimLen(delim), gap, gap_end)>>
       ELSE IF nodes[prev].kind = "text" /\ prefix_end # NoOffset /\ prefix_end > gap_end
       THEN <<PrefixEdit(source, gap_start, gap_end, prefix_end, gap)>>
       ELSE <<>>

\* The edits pushed for the container node n, in push order.
process_container_gaps(source, nodes, n, config) ==
    LET ch == named_children(nodes, n)
    IN Concat([k \in 1..(Len(ch) - 1) |-> GapEdits(source, nodes, ch[k], ch[k + 1], config)])

\* kind == "document" || kind == "element"
IsContainer(kind) == kind \in {"document", "element"}

(***************************************************************************)
(* edits.sort_by(start, end, replacement.len())                            *)
(***************************************************************************)
EditKeyLE(a, b) ==
    \/ a.start < b.start
    \/ a.start = b.start /\ a.end < b.end
    \/ a.start = b.start /\ a.end = b.end /\ Len(a.replacement) <= Len(b.replacement)

\* Stable insertion: e goes after every element whose key is <= its own.
InsertEdit(sorted, e) ==
    LET before == {k \in 1..Len(sorted) : EditKeyLE(sorted[k], e)}
        n == IF before = {} THEN 0 ELSE CHOOSE k \in before : \A m \in before : m <= k
    IN SubSeq(sorted, 1, n) \o <<e>> \o SubSeq(sorted, n + 1, Len(sorted))

RECURSIVE SortEditsFrom(_, _)
SortEditsFrom(sorted, rest) ==
    IF rest = <<>> THEN sorted ELSE SortEditsFrom(InsertEdit(sorted, Head(rest)), Tail(rest))

\* The collected edits left in push order.
SortEditsSkipped(edits) == edits

SortEdits(edits) == SortEditsFrom(<<>>, edits)

(***************************************************************************)
(* validate_edits                                                          *)
(***************************************************************************)
Ok == [kind |-> "Ok"]
InvalidEdit(idx, why) == [kind |-> "InvalidEdit", idx |-> idx, why |-> why]
OverlappingEdits(a, b) ==
    [kind |-> "OverlappingEdits", a_start |-> a.start, a_end |-> a.end,
     b_start |-> b.start, b_end |-> b.end]

\* The checks of one loop iteration, in source order; idx is 1-based here.
RECURSIVE ValidateLoop(_, _, _, _)
ValidateLoop(input_len, edits, idx, prev_end) ==
    IF idx > Len(edits) THEN Ok
    ELSE LET e == edits[idx]
         IN IF e.start > e.end THEN InvalidEdit(idx - 1, "start > end")
            ELSE IF e.end > input_len THEN InvalidEdit(idx - 1, "edit out of bounds")
            ELSE IF idx > 1 /\ e.start < prev_end THEN OverlappingEdits(edits[idx - 1], e)
            ELSE IF Len(e.output_byte_to_input_byte) # Len(e.replacement)
            THEN InvalidEdit(idx - 1, "output_byte_to_input_byte length mismatch")
            ELSE IF e.moved_delim_len > Len(e.replacement)
            THEN InvalidEdit(idx - 1, "moved_delim_len too large")
            ELSE IF \E k \in 1..Len(e.output_byte_to_input_byte) :
                       /\ e.output_byte_to_input_byte[k] # NoOffset
                       /\ e.output_byte_to_input_byte[k] >= input_len
            THEN InvalidEdit(idx - 1, "mapped input byte out of bounds")
            ELSE ValidateLoop(input_len, edits, idx + 1, e.end)

\* The variant that never compares an edit with its predecessor.
validate_edits_no_overlap_check(input_len, edits) ==
    IF \A k \in 1..Len(edits) :
          ValidateLoop(input_len, <<edits[k]>>, 1, 0).kind = "Ok"
    THEN Ok
    ELSE ValidateLoop(input_len, edits, 1, 0)

validate_edits(input_len, edits) == ValidateLoop(input_len, edits, 1, 0)

(***************************************************************************)
(* Sample documents: the inputs of the pipeline                            *)
(***************************************************************************)
\* Top-level nodes per document of DocumentRuns.
MaxTop == 3

StartTag(name) == Node("start_tag", <<Raw(<<Lt>>), Leaf("tag_name", name), Raw(<<Gt>>)>>)
EndTag(name) ==
    Node("end_tag", <<Raw(<<Lt, Slash>>), Leaf("tag_name", name), Raw(<<Gt>>)>>)
SelfClosingTag(name) ==
    Node("self_closing_tag", <<Raw(<<Lt>>), Leaf("tag_name", name), Raw(<<Slash, Gt>>)>>)
Text(bytes) == Leaf("text", bytes)
\* <!--c-->
Comment == Leaf("comment", <<Lt, Bang, Dash, Dash, 99, Dash, Dash, Gt>>)
Interpolation(parts) ==
    Node("html_interpolation", <<Token(<<LBrace>>)>> \o parts \o <<Token(<<RBrace>>)>>)
Element(parts) == Node("element", parts)

\* hi
ItemText == Text(<<104, 105>>)
\* {a}
ItemInterpolation == Interpolation(<<Leaf("permissible_text", <<97>>)>>)
\* <b/>
ItemSelfClosing == Element(<<SelfClosingTag(<<98>>)>>)
\* <a>LF SP x LF </a>
ItemElement ==
    Element(<<StartTag(<<97>>), Raw(<<LF, SP>>), Text(<<120>>), Raw(<<LF>>), EndTag(<<97>>)>>)
\* <a>x LF SP {a} LF SP SP <b/> LF LF </a>
ItemElementMixed ==
    Element(<<StartTag(<<97>>), Text(<<120>>), Raw(<<LF, SP>>), ItemInterpolation,
              Raw(<<LF, SP, SP>>), ItemSelfClosing, Raw(<<LF, LF>>), EndTag(<<97>>)>>)
\* {c SP <i> LF SP y </i> SP <b/> SP}
ItemInterpolationNested ==
    Interpolation(<<Leaf("permissible_text", <<99>>), Raw(<<SP>>),
                    Element(<<StartTag(<<105>>), Raw(<<LF, SP>>), Text(<<121>>),
                              EndTag(<<105>>)>>),
                    Raw(<<SP>>), ItemSelfClosing, Raw(<<SP>>)>>)
\* <!d>
ItemDoctype == Leaf("doctype", <<Lt, Bang, 100, Gt>>)
\* <a>x  (an element left open, whose last named child is text)
ItemElementOpen == Element(<<StartTag(<<97>>), Text(<<120>>)>>)
\* <a><i><b/>  (two elements left open, each the last named child of the
\* one around it)
ItemElementOpenNested ==
    Element(<<StartTag(<<97>>), Element(<<StartTag(<<105>>), ItemSelfClosing>>)>>)

Items ==
    {ItemText, Comment, ItemInterpolation, ItemSelfClosing, ItemElement,
     ItemElementMixed, ItemInterpolationNested, ItemDoctype, ItemElementOpen,
     ItemElementOpenNested}

\* The bytes between two top-level nodes: whitespace of several shapes, no
\* bytes at all, U+00A0, and a gap that holds a non-whitespace byte.
Gaps ==
    {<<>>, <<LF>>, <<LF, SP>>, <<LF, SP, SP>>, <<LF, TAB, LF>>, <<LF, LF>>,
     <<CR, LF, CR, LF, SP>>, <<194, 160>>, <<SP, 38>>}

\* prev gap next: every item before and after every gap, and each item alone.
DocumentPairs ==
    {<<i>> : i \in Items} \cup {<<i, Raw(g), j>> : i \in Items, g \in Gaps, j \in Items}

\* Runs of up to MaxTop simple siblings, so that one node is the next of one
\* gap and the prev of the following one.
RunItems == {ItemText, Comment, ItemInterpolation, ItemSelfClosing}
RunGaps == {<<LF, SP>>, <<LF, LF>>}

RECURSIVE RunsOf(_)
RunsOf(n) ==
    IF n = 1 THEN {<<i>> : i \in RunItems}
    ELSE {p \o <<Raw(g), i>> : p \in RunsOf(n - 1), g \in RunGaps, i \in RunItems}

DocumentRuns == UNION {RunsOf(n) : n \in 1..MaxTop}

Documents == {Node("document", p) : p \in DocumentPairs \cup DocumentRuns}

(***************************************************************************)
(* Sample edit lists: the inputs of validate_edits taken on its own        *)
(***************************************************************************)
\* Length of the input the sample edit lists refer to.
MaxInputLen == 2

\* abc...: MaxInputLen bytes.
SampleInput == [k \in 1..MaxInputLen |-> 96 + k]

\* replacement, origin table and moved_delim_len: a deletion, an insertion, a
\* moved byte, an origin out of bounds, a table of the wrong length, a
\* moved_delim_len that is too large, a two-byte replacement, the first two
\* bytes swapped, and an inserted byte after a kept one.
SamplePayloads ==
    {[replacement |-> <<>>, output_byte_to_input_byte |-> <<>>, moved_delim_len |-> 0],
     [replacement |-> <<120>>, output_byte_to_input_byte |-> <<NoOffset>>,
      moved_delim_len |-> 0],
     [replacement |-> <<120>>, output_byte_to_input_byte |-> <<0>>, moved_delim_len |-> 1],
     [replacement |-> <<120>>, output_byte_to_input_byte |-> <<MaxInputLen>>,
      moved_delim_len |-> 0],
     [replacement |-> <<120>>, output_byte_to_input_byte |-> <<>>, moved_delim_len |-> 0],
     [replacement |-> <<120>>, output_byte_to_input_byte |-> <<0>>, moved_delim_len |-> 2],
     [replacement |-> <<120, 121>>,
      output_byte_to_input_byte |-> <<MaxInputLen - 1, NoOffset>>, moved_delim_len |-> 2],
     [replacement |-> <<98, 97>>, output_byte_to_input_byte |-> <<1, 0>>,
      moved_delim_len |-> 1],
     [replacement |-> <<97, 120>>, output_byte_to_input_byte |-> <<0, NoOffset>>,
      moved_delim_len |-> 0]}

SampleEdits ==
    {[start |-> a, end |-> b, replacement |-> p.replacement,
      output_byte_to_input_byte |-> p.output_byte_to_input_byte,
      moved_delim_len |-> p.moved_delim_len] :
        a \in 0..(MaxInputLen + 1), b \in 0..(MaxInputLen + 1), p \in SamplePayloads}

\* No edit, one edit, or two edits in either order.
SampleEditLists ==
    {<<>>} \cup {<<e>> : e \in SampleEdits} \cup {<<e, f>> : e \in SampleEdits, f \in SampleEdits}

(***************************************************************************)
(* Sample gaps: the inputs of the rotate functions taken on their own      *)
(***************************************************************************)
\* Whitespace scalars per gap.
MaxGapLen == 3

\* LF, CR, space, tab and U+00A0 (two bytes).
GapScalars == {<<LF>>, <<CR>>, <<SP>>, <<TAB>>, <<194, 160>>}

\* Every non-empty whitespace-only gap of up to MaxGapLen scalars.
SampleGaps == {Concat(s) : s \in SeqsUpTo(GapScalars, MaxGapLen)} \ {<<>>}

\* { and <!-- and <a and </a
SamplePrefixes == {<<LBrace>>, <<Lt, Bang, Dash, Dash>>, <<Lt, 97>>, <<Lt, Slash, 97>>}

(***************************************************************************)
(* edit.rs: output spans and the two byte tables                           *)
(***************************************************************************)
\* compute_output_spans: for each edit its (out_start, out_end), by the running
\* length delta.
RECURSIVE OutputSpansFrom(_, _, _)
OutputSpansFrom(list, k, delta) ==
    IF k > Len(list) THEN <<>>
    ELSE LET e == list[k]
             out_start == e.start + delta
             out_end == out_start + Len(e.replacement)
         IN <<[edit |-> e, out_start |-> out_start, out_end |-> out_end]>>
            \o OutputSpansFrom(list, k + 1,
                               delta + Len(e.replacement) - (e.end - e.start))

\* A delta that counts the replacement bytes only and forgets the bytes the
\* edit removes.
RECURSIVE LengthDeltaAddedOnly(_, _)
LengthDeltaAddedOnly(list, k) ==
    IF k > Len(list) THEN 0
    ELSE Len(list[k].replacement) + LengthDeltaAddedOnly(list, k + 1)

RECURSIVE LengthDelta(_, _)
LengthDelta(list, k) ==
    IF k > Len(list) THEN 0
    ELSE Len(list[k].replacement) - (list[k].end - list[k].start) + LengthDelta(list, k + 1)

compute_output_spans(input_len, list) ==
    LET total == input_len + LengthDelta(list, 1)
    IN [spans |-> OutputSpansFrom(list, 1, 0),
        expected_out_len |-> IF total > 0 THEN total ELSE 0]

\* vec![None; len]
NoneTable(len) == [k \in 1..len |-> NoOffset]

\* The loop over edit_out_spans of build_output_to_input_map from span k on;
\* tbl[o + 1] is out_to_in[o].  A return inside a loop ends the whole function.
RECURSIVE OutToInLoop(_, _, _, _, _, _, _)
OutToInLoop(input_len, output_len, spans, k, tbl, in_cursor, out_cursor) ==
    IF k > Len(spans)
    THEN \* Trailing unchanged region.
         [o \in 1..output_len |->
             IF in_cursor < input_len /\ o - 1 >= out_cursor
                /\ in_cursor + (o - 1 - out_cursor) < input_len
             THEN in_cursor + (o - 1 - out_cursor)
             ELSE tbl[o]]
    ELSE LET e == spans[k].edit
             len == IF e.start > in_cursor THEN e.start - in_cursor ELSE 0
             \* Unchanged region before the edit.
             before == [o \in 1..output_len |->
                           IF o - 1 >= out_cursor /\ o - 1 < out_cursor + len
                              /\ in_cursor + (o - 1 - out_cursor) < input_len
                           THEN in_cursor + (o - 1 - out_cursor)
                           ELSE tbl[o]]
             origin == e.output_byte_to_input_byte
             at == spans[k].out_start
             \* Edit replacement bytes.
             within == [o \in 1..output_len |->
                           IF o - 1 >= at /\ o - 1 < at + Len(origin)
                              /\ origin[o - at] # NoOffset /\ origin[o - at] < input_len
                           THEN origin[o - at]
                           ELSE before[o]]
         IN IF len > 0 /\ out_cursor + len > output_len THEN before
            ELSE IF Len(origin) > 0 /\ at + Len(origin) > output_len THEN within
            ELSE OutToInLoop(input_len, output_len, spans, k + 1, within,
                             e.end, spans[k].out_end)

\* The variant that takes every output byte for an unchanged one.
build_output_to_input_map_unchanged(input_len, output_len, spans) ==
    [o \in 1..output_len |-> IF o - 1 < input_len THEN o - 1 ELSE NoOffset]

build_output_to_input_map(input_len, output_len, spans) ==
    OutToInLoop(input_len, output_len, spans, 1, NoneTable(output_len), 0, 0)

\* The variant in which the edit loop writes nothing.
LastWriterNone(origin, at, output_len, input_len, i) == NoOffset

\* The output offset the edit loop leaves in in_to_out[i]: the last j, among
\* those the loop reaches, whose origin is i.
LastWriter(origin, at, output_len, input_len, i) ==
    LET js == {j \in 1..Len(origin) :
                  at + (j - 1) < output_len /\ origin[j] = i /\ i < input_len}
    IN IF js = {} THEN NoOffset
       ELSE at + (CHOOSE j \in js : \A m \in js : m <= j) - 1

\* The loop over edit_out_spans of build_input_to_output_map from span k on;
\* tbl[i + 1] is in_to_out[i].  The edit loop breaks, the region loop returns.
RECURSIVE InToOutLoop(_, _, _, _, _, _, _)
InToOutLoop(input_len, output_len, spans, k, tbl, in_cursor, out_cursor) ==
    IF k > Len(spans)
    THEN \* Trailing unchanged region.
         [i \in 1..input_len |->
             IF i - 1 >= in_cursor /\ out_cursor + (i - 1 - in_cursor) < output_len
             THEN out_cursor + (i - 1 - in_cursor)
             ELSE tbl[i]]
    ELSE LET e == spans[k].edit
             len == IF e.start > in_cursor THEN e.start - in_cursor ELSE 0
             before == [i \in 1..input_len |->
                           IF i - 1 >= in_cursor /\ i - 1 < in_cursor + len
                              /\ out_cursor + (i - 1 - in_cursor) < output_len
                           THEN out_cursor + (i - 1 - in_cursor)
                           ELSE tbl[i]]
             origin == e.output_byte_to_input_byte
             at == spans[k].out_start
             within == [i \in 1..input_len |->
                           IF LastWriter(origin, at, output_len, input_len, i - 1) # NoOffset
                           THEN LastWriter(origin, at, output_len, input_len, i - 1)
                           ELSE before[i]]
         IN IF len > 0 /\ out_cursor + len > output_len THEN before
            ELSE InToOutLoop(input_len, output_len, spans, k + 1, within,
                             e.end, spans[k].out_end)

build_input_to_output_map(input_len, output_len, spans) ==
    InToOutLoop(input_len, output_len, spans, 1, NoneTable(input_len), 0, 0)

(***************************************************************************)
(* utf16.rs: Utf16Index                                                    *)
(***************************************************************************)
\* char::len_utf16 of the scalar whose first byte is b.
Utf16Len(b) == IF ScalarLen(b) = 4 THEN 2 ELSE 1

\* Number of Unicode scalar values between checkpoints.
CHECKPOINT_STRIDE_CHARS == 64

\* compute_line_starts: 0 and i + 1 for every LF at offset i.
compute_line_starts(s) == SortAsc({0} \cup {i \in 1..Len(s) : s[i] = LF})

\* A loop body that records the column before the current scalar in the
\* checkpoint: what C16 and C17 rule out.
CheckpointStepStale(s, end, st) ==
    IF st.byte >= end THEN st
    ELSE LET next_byte == st.byte + ScalarLen(s[st.byte + 1])
         IN [byte |-> next_byte,
             utf16_col |-> st.utf16_col + Utf16Len(s[st.byte + 1]),
             char_count |-> st.char_count + 1,
             checkpoints |->
                 IF (st.char_count + 1) % CHECKPOINT_STRIDE_CHARS = 0
                 THEN Append(st.checkpoints,
                             [byte |-> next_byte, utf16_col |-> st.utf16_col])
                 ELSE st.checkpoints]

\* One iteration of the char_indices loop of Utf16LineIndex::new; st is left
\* as it is once the line is consumed.
CheckpointStep(s, end, st) ==
    IF st.byte >= end THEN st
    ELSE LET next_byte == st.byte + ScalarLen(s[st.byte + 1])
             col == st.utf16_col + Utf16Len(s[st.byte + 1])
         IN [byte |-> next_byte,
             utf16_col |-> col,
             char_count |-> st.char_count + 1,
             checkpoints |->
                 IF (st.char_count + 1) % CHECKPOINT_STRIDE_CHARS = 0
                 THEN Append(st.checkpoints, [byte |-> next_byte, utf16_col |-> col])
                 ELSE st.checkpoints]

\* Up to n iterations of the loop, the first half before the second.
RECURSIVE CheckpointLoop(_, _, _, _)
CheckpointLoop(s, end, st, n) ==
    IF n <= 0 THEN st
    ELSE IF n = 1 THEN CheckpointStep(s, end, st)
    ELSE LET half == CheckpointLoop(s, end, st, n \div 2)
         IN IF half.byte >= end THEN half
            ELSE CheckpointLoop(s, end, half, n - n \div 2)

Utf16LineIndex_new(s, start, end) ==
    LET walk == CheckpointLoop(s, end,
                               [byte |-> start, utf16_col |-> 0, char_count |-> 0,
                                checkpoints |-> <<[byte |-> start, utf16_col |-> 0]>>],
                               end - start)
        cps == walk.checkpoints
    IN [start |-> start,
        end |-> end,
        checkpoints |-> IF cps[Len(cps)].byte # end
                        THEN Append(cps, [byte |-> end, utf16_col |-> walk.utf16_col])
                        ELSE cps]

\* The end of line i (1-based here) as Utf16Index::new computes it.
LineEndOf(s, line_starts, i) ==
    LET start == line_starts[i]
        end == IF i < Len(line_starts)
               THEN (IF line_starts[i + 1] > 0 THEN line_starts[i + 1] - 1 ELSE 0)
               ELSE Len(s)
    IN IF end > start /\ s[end] = CR THEN end - 1 ELSE end

Utf16Index_new(s, line_starts) ==
    [s |-> s,
     line_starts |-> line_starts,
     lines |-> [i \in 1..Len(line_starts) |->
                   Utf16LineIndex_new(s, line_starts[i], LineEndOf(s, line_starts, i))]]

utf16_len(li) == li.checkpoints[Len(li.checkpoints)].utf16_col

\* binary_search_by over strictly increasing keys, with Ok(i) => i, Err(0) => 0,
\* Err(i) => i - 1: the 1-based index of the last key <= target, else the first.
LastAtOrBefore(keys, target) ==
    LET hits == {k \in 1..Len(keys) : keys[k] <= target}
    IN IF hits = {} THEN 1 ELSE CHOOSE k \in hits : \A m \in hits : m <= k

\* One iteration of the while loop of byte_to_utf16_col; stop marks a break or
\* a false loop condition.
ByteStep(s, li, clamped, st) ==
    IF st.stop \/ st.cur_byte >= clamped THEN [st EXCEPT !.stop = TRUE]
    ELSE IF st.cur_byte - li.start >= li.end - li.start THEN [st EXCEPT !.stop = TRUE]
    ELSE LET next_byte == st.cur_byte + ScalarLen(s[st.cur_byte + 1])
         IN IF next_byte <= clamped
            THEN [cur_byte |-> next_byte,
                  cur_utf16 |-> st.cur_utf16 + Utf16Len(s[st.cur_byte + 1]),
                  stop |-> FALSE]
            ELSE [st EXCEPT !.stop = TRUE]

RECURSIVE ByteLoop(_, _, _, _, _)
ByteLoop(s, li, clamped, st, n) ==
    IF n <= 0 THEN st
    ELSE IF n = 1 THEN ByteStep(s, li, clamped, st)
    ELSE LET half == ByteLoop(s, li, clamped, st, n \div 2)
         IN IF half.stop THEN half
            ELSE ByteLoop(s, li, clamped, half, n - n \div 2)

byte_to_utf16_col(li, s, abs_byte) ==
    IF abs_byte <= li.start THEN 0
    ELSE LET clamped == Min(abs_byte, li.end)
             cp == li.checkpoints[LastAtOrBefore(
                       [k \in 1..Len(li.checkpoints) |-> li.checkpoints[k].byte], clamped)]
         IN ByteLoop(s, li, clamped,
                     [cur_byte |-> cp.byte, cur_utf16 |-> cp.utf16_col, stop |-> FALSE],
                     clamped - cp.byte).cur_utf16

\* A loop body that steps over a scalar even when the wanted unit lies inside
\* it: what C17 rules out.
ColStepPastPair(s, li, utf16_col, st) ==
    IF st.stop \/ ~(st.cur_utf16 < utf16_col /\ st.cur_byte < li.end)
    THEN [st EXCEPT !.stop = TRUE]
    ELSE [cur_byte |-> st.cur_byte + ScalarLen(s[st.cur_byte + 1]),
          cur_utf16 |-> st.cur_utf16 + Utf16Len(s[st.cur_byte + 1]),
          stop |-> FALSE]

\* One iteration of the while loop of utf16_col_to_byte.
ColStep(s, li, utf16_col, st) ==
    IF st.stop \/ ~(st.cur_utf16 < utf16_col /\ st.cur_byte < li.end)
    THEN [st EXCEPT !.stop = TRUE]
    ELSE IF st.cur_byte - li.start >= li.end - li.start THEN [st EXCEPT !.stop = TRUE]
    ELSE IF st.cur_utf16 + Utf16Len(s[st.cur_byte + 1]) > utf16_col
    THEN [st EXCEPT !.stop = TRUE]
    ELSE [cur_byte |-> st.cur_byte + ScalarLen(s[st.cur_byte + 1]),
          cur_utf16 |-> st.cur_utf16 + Utf16Len(s[st.cur_byte + 1]),
          stop |-> FALSE]

RECURSIVE ColLoop(_, _, _, _, _)
ColLoop(s, li, utf16_col, st, n) ==
    IF n <= 0 THEN st
    ELSE IF n = 1 THEN ColStep(s, li, utf16_col, st)
    ELSE LET half == ColLoop(s, li, utf16_col, st, n \div 2)
         IN IF half.stop THEN half
            ELSE ColLoop(s, li, utf16_col, half, n - n \div 2)

utf16_col_to_byte(li, s, utf16_col) ==
    IF utf16_col = 0 THEN li.start
    ELSE IF utf16_col >= utf16_len(li) THEN li.end
    ELSE LET cp == li.checkpoints[LastAtOrBefore(
                       [k \in 1..Len(li.checkpoints) |-> li.checkpoints[k].utf16_col],
                       utf16_col)]
         IN ColLoop(s, li, utf16_col,
                    [cur_byte |-> cp.byte, cur_utf16 |-> cp.utf16_col, stop |-> FALSE],
                    utf16_col - cp.utf16_col).cur_byte

\* A lookup that takes every byte for a byte of the first line.
line_for_byte_first_line(index, byte) == 0

\* The 0-based line that contains byte; the final line past the end.
line_for_byte(index, byte) == LastAtOrBefore(index.line_starts, byte) - 1

byte_to_line_utf16_col(index, byte) ==
    LET line == line_for_byte(index, byte)
    IN [line |-> line, col |-> byte_to_utf16_col(index.lines[line + 1], index.s, byte)]

\* NoOffset stands for None.
line_utf16_col_to_byte(index, line, utf16_col) ==
    IF line >= Len(index.lines) THEN NoOffset
    ELSE utf16_col_to_byte(index.lines[line + 1], index.s, utf16_col)

(***************************************************************************)
(* edit.rs: create_sourcemap                                               *)
(***************************************************************************)
\* u32::MAX, the line and column of an unmapped token: all 32 bits set, written
\* as the signed value of that pattern. It is only compared for equality.
U32_MAX == -1

\* Option<&str>::None for a token's source and name.
NoStr == "None"

\* The source_filename of the sample calls.
SourceFilename == "input.astro"

\* builder.add(dst_line, dst_col, src_line, src_col, source, name, false)
MapToken(dst_line, dst_col, src_line, src_col, src, name) ==
    [dst_line |-> dst_line, dst_col |-> dst_col, src_line |-> src_line,
     src_col |-> src_col, source |-> src, name |-> name]

Unmapped(dst_line, dst_col) == MapToken(dst_line, dst_col, U32_MAX, U32_MAX, NoStr, NoStr)

\* An anchor that is unmapped whatever the origin of out_byte.
add_anchor_create_unmapped(out_utf16, in_utf16, out_to_in, out_byte, source_filename) ==
    LET o == byte_to_line_utf16_col(out_utf16, out_byte)
    IN Unmapped(o.line, o.col)

\* The token add_anchor_create adds for out_byte.
add_anchor_create(out_utf16, in_utf16, out_to_in, out_byte, source_filename) ==
    LET o == byte_to_line_utf16_col(out_utf16, out_byte)
        in_byte == IF out_byte < Len(out_to_in) THEN out_to_in[out_byte + 1] ELSE NoOffset
    IN IF in_byte # NoOffset
       THEN LET i == byte_to_line_utf16_col(in_utf16, in_byte)
            IN MapToken(o.line, o.col, i.line, i.col, source_filename, NoStr)
       ELSE Unmapped(o.line, o.col)

\* The first loop of create_sourcemap: one token per output line start below
\* map_len (the starts ascend, so the break leaves a prefix of them).
LineStartAnchors(out_line_starts, in_utf16, out_to_in, in_len, map_len, source_filename) ==
    LET n == Cardinality({k \in 1..Len(out_line_starts) : out_line_starts[k] < map_len})
    IN [k \in 1..n |->
           LET in_byte == out_to_in[out_line_starts[k] + 1]
           IN IF in_byte # NoOffset /\ in_byte < in_len
              THEN LET i == byte_to_line_utf16_col(in_utf16, in_byte)
                   IN MapToken(k - 1, 0, i.line, i.col, source_filename, NoStr)
              ELSE Unmapped(k - 1, 0)]

\* An edit without a following-token anchor after its moved delimiter: what
\* C11 rules out.
EditAnchorsCreateNoBoundary(span, out_utf16, in_utf16, out_to_in, map_len, source_filename) ==
    IF span.out_start < map_len
    THEN <<add_anchor_create(out_utf16, in_utf16, out_to_in, span.out_start,
                             source_filename)>>
    ELSE <<>>

\* An edit loop that anchors its four positions without holding them against
\* map_len.
EditAnchorsCreateUnguarded(span, out_utf16, in_utf16, out_to_in, map_len, source_filename) ==
    LET e == span.edit
        anchor(out_byte) ==
            <<add_anchor_create(out_utf16, in_utf16, out_to_in, out_byte, source_filename)>>
    IN anchor(span.out_start)
       \o (IF e.moved_delim_len > 0 /\ span.out_end >= e.moved_delim_len
           THEN anchor(span.out_end - e.moved_delim_len)
                \o (IF e.moved_delim_len > 1 THEN anchor(span.out_end - 1) ELSE <<>>)
           ELSE <<>>)
       \o (IF e.moved_delim_len > 0 THEN anchor(span.out_end) ELSE <<>>)

\* One iteration of the second loop of create_sourcemap: the tokens added for
\* one edit, in the order of the calls.
EditAnchorsCreate(span, out_utf16, in_utf16, out_to_in, map_len, source_filename) ==
    LET e == span.edit
        anchor(out_byte) ==
            <<add_anchor_create(out_utf16, in_utf16, out_to_in, out_byte, source_filename)>>
        out_delim == span.out_end - e.moved_delim_len
        out_delim_last == IF span.out_end > 0 THEN span.out_end - 1 ELSE 0
    IN (IF span.out_start < map_len THEN anchor(span.out_start) ELSE <<>>)
       \o (IF e.moved_delim_len > 0 /\ span.out_end >= e.moved_delim_len
           THEN (IF out_delim < map_len THEN anchor(out_delim) ELSE <<>>)
                \o (IF e.moved_delim_len > 1 /\ out_delim_last < map_len
                    THEN anchor(out_delim_last) ELSE <<>>)
           ELSE <<>>)
       \o (IF e.moved_delim_len > 0 /\ span.out_end < map_len
           THEN anchor(span.out_end) ELSE <<>>)

\* The tokens create_sourcemap hands to the builder, in the order of the calls
\* of builder.add.
create_sourcemap(input_code, output_code, source_filename, list) ==
    LET out_len == Len(output_code)
        in_len == Len(input_code)
        in_line_starts == compute_line_starts(input_code)
        out_line_starts == compute_line_starts(output_code)
        in_utf16 == Utf16Index_new(input_code, in_line_starts)
        out_utf16 == Utf16Index_new(output_code, out_line_starts)
        sp == compute_output_spans(in_len, list)
        map_len == Min(out_len, sp.expected_out_len)
        out_to_in == build_output_to_input_map(in_len, map_len, sp.spans)
    IN LineStartAnchors(out_line_starts, in_utf16, out_to_in, in_len, map_len,
                        source_filename)
       \o Concat([k \in 1..Len(sp.spans) |->
                     EditAnchorsCreate(sp.spans[k], out_utf16, in_utf16, out_to_in,
                                       map_len, source_filename)])

\* A builder that pushes a source entry for every add, known or not.
add_source_always(sources, name) == Append(sources, name)

\* SourceMapBuilder::add_source: the builder keeps one entry per distinct
\* name and hands back the index of a name it already has.
add_source(sources, name) ==
    IF \E k \in 1..Len(sources) : sources[k] = name THEN sources ELSE Append(sources, name)

RECURSIVE AddTokenSources(_, _)
\* builder.add(.., Some(source), ..) registers the source of the token;
\* builder.add(.., None, ..) registers none.
AddTokenSources(sources, tokens) ==
    IF tokens = <<>> THEN sources
    ELSE AddTokenSources(IF Head(tokens).source = NoStr THEN sources
                         ELSE add_source(sources, Head(tokens).source),
                         Tail(tokens))

\* The sources of the map create_sourcemap returns: builder.add_source
\* (source_filename), then the adds of the two loops.
create_sourcemap_sources(input_code, output_code, source_filename, list) ==
    AddTokenSources(add_source(<<>>, source_filename),
                    create_sourcemap(input_code, output_code, source_filename, list))

\* builder.set_source_contents(0, Some(input_code)): the contents by source
\* index.
create_sourcemap_contents(input_code) == <<input_code>>

\* SourceMap::lookup_token(line, col): the tokens at the greatest destination
\* at or before (line, col); several when that destination was added more
\* than once.
lookup_token(tokens, line, col) ==
    LET before(t) == t.dst_line < line \/ (t.dst_line = line /\ t.dst_col <= col)
        later(t, u) == u.dst_line > t.dst_line
                       \/ (u.dst_line = t.dst_line /\ u.dst_col > t.dst_col)
        cands == {k \in 1..Len(tokens) : before(tokens[k])}
    IN {tokens[k] : k \in {k \in cands : \A m \in cands : ~later(tokens[k], tokens[m])}}

(***************************************************************************)
(* edit.rs: sort_and_dedup_mappings and rewrite_sourcemap                  *)
(***************************************************************************)
\* A comparator that looks at the destination alone: what C15 rules out.
MappingLessByDestination(a, b) ==
    \/ a.dst_line < b.dst_line
    \/ a.dst_line = b.dst_line /\ a.dst_col < b.dst_col

\* The comparator of mappings.sort_by says Less for (a, b).
MappingLess(a, b) ==
    \/ a.dst_line < b.dst_line
    \/ a.dst_line = b.dst_line /\ a.dst_col < b.dst_col
    \/ /\ a.dst_line = b.dst_line /\ a.dst_col = b.dst_col
       /\ a.src_line # U32_MAX /\ b.src_line = U32_MAX

\* m put into a sorted list behind everything that is not greater: sort_by is
\* stable.
InsertMapping(sorted, m) ==
    LET greater == {k \in 1..Len(sorted) : MappingLess(m, sorted[k])}
        at == IF greater = {} THEN Len(sorted) + 1
              ELSE CHOOSE k \in greater : \A j \in greater : k <= j
    IN SubSeq(sorted, 1, at - 1) \o <<m>> \o SubSeq(sorted, at, Len(sorted))

RECURSIVE SortMappings(_)
SortMappings(mappings) ==
    IF mappings = <<>> THEN <<>>
    ELSE InsertMapping(SortMappings(SubSeq(mappings, 1, Len(mappings) - 1)),
                       mappings[Len(mappings)])

SameDst(a, b) == a.dst_line = b.dst_line /\ a.dst_col = b.dst_col

\* mappings.dedup_by(same destination): of each run of equal destinations the
\* first entry stays.
DedupMappings(mappings) ==
    LET kept == {k \in 1..Len(mappings) : k = 1 \/ ~SameDst(mappings[k], mappings[k - 1])}
        order == SortAsc(kept)
    IN [k \in 1..Len(order) |-> mappings[order[k]]]

sort_and_dedup_mappings(mappings) == DedupMappings(SortMappings(mappings))

\* input_map.lookup_token(line, col) and the match on it: the source fields
\* of the token found, or the unmapped ones.
UpstreamAt(tokens, line, col) ==
    LET found == lookup_token(tokens, line, col)
    IN IF found = {} THEN Unmapped(0, 0) ELSE CHOOSE t \in found : TRUE

\* The mapping add_anchor_rewrite pushes for out_byte.
add_anchor_rewrite(tokens, in_utf16, out_utf16, out_to_in, out_byte) ==
    LET o == byte_to_line_utf16_col(out_utf16, out_byte)
        in_byte == IF out_byte < Len(out_to_in) THEN out_to_in[out_byte + 1] ELSE NoOffset
    IN IF in_byte = NoOffset THEN Unmapped(o.line, o.col)
       ELSE LET i == byte_to_line_utf16_col(in_utf16, in_byte)
                t == UpstreamAt(tokens, i.line, i.col)
            IN MapToken(o.line, o.col, t.src_line, t.src_col, t.source, t.name)

\* A token loop that keeps each token at its destination in the input code:
\* what C14 rules out.
TokenMappingsUnmoved(tokens, in_utf16, out_utf16, in_to_out) ==
    LET in_byte(k) == line_utf16_col_to_byte(in_utf16, tokens[k].dst_line, tokens[k].dst_col)
        kept == {k \in 1..Len(tokens) :
                    /\ in_byte(k) # NoOffset
                    /\ in_byte(k) < Len(in_to_out)
                    /\ in_to_out[in_byte(k) + 1] # NoOffset}
        order == SortAsc(kept)
    IN [j \in 1..Len(order) |-> tokens[order[j]]]

\* The token loop of rewrite_sourcemap: the mapping pushed for each upstream
\* token that is not skipped.
TokenMappings(tokens, in_utf16, out_utf16, in_to_out) ==
    LET in_byte(k) == line_utf16_col_to_byte(in_utf16, tokens[k].dst_line, tokens[k].dst_col)
        kept == {k \in 1..Len(tokens) :
                    /\ in_byte(k) # NoOffset
                    /\ in_byte(k) < Len(in_to_out)
                    /\ in_to_out[in_byte(k) + 1] # NoOffset}
        order == SortAsc(kept)
    IN [j \in 1..Len(order) |->
           LET t == tokens[order[j]]
               o == byte_to_line_utf16_col(out_utf16, in_to_out[in_byte(order[j]) + 1])
           IN MapToken(o.line, o.col, t.src_line, t.src_col, t.source, t.name)]

\* An edit loop whose boundary anchor is an ordinary anchor at out_end, as
\* in create_sourcemap: it follows the origin of the output byte instead of
\* edit.end.
EditAnchorsRewriteAsCreate(span, tokens, in_utf16, out_utf16, out_to_in, in_len, map_out_len) ==
    LET e == span.edit
        anchor(out_byte) ==
            <<add_anchor_rewrite(tokens, in_utf16, out_utf16, out_to_in, out_byte)>>
        out_delim == span.out_end - e.moved_delim_len
        out_delim_last == IF span.out_end > 0 THEN span.out_end - 1 ELSE 0
    IN IF e.moved_delim_len = 0 THEN <<>>
       ELSE (IF span.out_start < map_out_len THEN anchor(span.out_start) ELSE <<>>)
            \o (IF span.out_end >= e.moved_delim_len
                THEN (IF out_delim < map_out_len THEN anchor(out_delim) ELSE <<>>)
                     \o (IF e.moved_delim_len > 1 /\ out_delim_last < map_out_len
                         THEN anchor(out_delim_last) ELSE <<>>)
                ELSE <<>>)
            \o (IF span.out_end < map_out_len /\ e.end < in_len
                THEN anchor(span.out_end) ELSE <<>>)

\* One iteration of the edit loop of rewrite_sourcemap: the mappings pushed
\* for one edit, in order.
EditAnchorsRewrite(span, tokens, in_utf16, out_utf16, out_to_in, in_len, map_out_len) ==
    LET e == span.edit
        anchor(out_byte) ==
            <<add_anchor_rewrite(tokens, in_utf16, out_utf16, out_to_in, out_byte)>>
        out_delim == span.out_end - e.moved_delim_len
        out_delim_last == IF span.out_end > 0 THEN span.out_end - 1 ELSE 0
        o == byte_to_line_utf16_col(out_utf16, span.out_end)
        i == byte_to_line_utf16_col(in_utf16, e.end)
        t == UpstreamAt(tokens, i.line, i.col)
    IN IF e.moved_delim_len = 0 THEN <<>>
       ELSE (IF span.out_start < map_out_len THEN anchor(span.out_start) ELSE <<>>)
            \o (IF span.out_end >= e.moved_delim_len
                THEN (IF out_delim < map_out_len THEN anchor(out_delim) ELSE <<>>)
                     \o (IF e.moved_delim_len > 1 /\ out_delim_last < map_out_len
                         THEN anchor(out_delim_last) ELSE <<>>)
                ELSE <<>>)
            \o (IF span.out_end < map_out_len /\ e.end < in_len
                THEN <<MapToken(o.line, o.col, t.src_line, t.src_col, t.source, t.name)>>
                ELSE <<>>)

\* The mappings vector of rewrite_sourcemap when both loops are done, before
\* sort_and_dedup_mappings; tokens are those of the parsed
\* input_sourcemap_json.
rewrite_mappings(input_code, output_code, tokens, list) ==
    LET in_utf16 == Utf16Index_new(input_code, compute_line_starts(input_code))
        out_utf16 == Utf16Index_new(output_code, compute_line_starts(output_code))
        in_len == Len(input_code)
        out_len == Len(output_code)
        sp == compute_output_spans(in_len, list)
        map_out_len == Min(out_len, sp.expected_out_len)
        out_to_in == build_output_to_input_map(in_len, map_out_len, sp.spans)
        in_to_out == build_input_to_output_map(in_len, map_out_len, sp.spans)
    IN TokenMappings(tokens, in_utf16, out_utf16, in_to_out)
       \o Concat([k \in 1..Len(sp.spans) |->
                     EditAnchorsRewrite(sp.spans[k], tokens, in_utf16, out_utf16,
                                        out_to_in, in_len, map_out_len)])

\* The tokens rewrite_sourcemap hands to the builder.
rewrite_sourcemap(input_code, output_code, tokens, list) ==
    sort_and_dedup_mappings(rewrite_mappings(input_code, output_code, tokens, list))

(***************************************************************************)
(* State                                                                   *)
(***************************************************************************)
VARIABLES
    source,      \* the input bytes
    nodes,       \* the CST of source, flattened
    config,      \* StripConfig
    pc,          \* position in rewrite
    cursor,      \* collect_edits: the TreeCursor's node
    edits,       \* collect_edits: the edits collected so far; then rewrite's edits
    out,         \* rewrite: the output built so far
    out_cursor,  \* rewrite: the input cursor of the apply loop
    next_edit,   \* rewrite: the apply loop's position in edits
    err,         \* the error returned, if any
    rot,         \* a call of rotate_delim_over_gap / rotate_prefix_over_gap
    entry,       \* the public function that was called
    result,      \* what the public function returned
    smcall,      \* a call of rewrite_sourcemap or sort_and_dedup_mappings
    ix           \* a Utf16Index and a conversion asked of it

pipeVars == <<source, nodes, config, pc, cursor, edits, out, out_cursor, next_edit, err>>

\* What a step inside rewrite leaves alone.
callVars == <<entry, result, smcall, ix>>

rotVars == <<rot>>

vars == <<pipeVars, rotVars, callVars>>

NoErr == [kind |-> "None"]

\* No rotate call under way.
RotIdle == [pc |-> "idle"]

\* No Utf16Index built.
IxIdle == [pc |-> "idle"]

\* No call of rewrite_sourcemap or sort_and_dedup_mappings.
SmIdle == [pc |-> "idle"]

\* Nothing returned yet.
NoResult == [kind |-> "None"]

\* The two public functions of strip.rs.
EntryPoints == {"strip_astro_whitespace", "strip_astro_whitespace_no_sourcemap"}

InitPipe ==
    \E doc \in Documents, pbl \in BOOLEAN, called \in EntryPoints :
        LET flat == Flatten(doc)
        IN /\ entry = called
           /\ source = flat.bytes
           /\ nodes = flat.nodes
           /\ config = [preserve_blank_lines |-> pbl]
           /\ pc = "parse"
           /\ cursor = 0
           /\ edits = <<>>
           /\ out = <<>>
           /\ out_cursor = 0
           /\ next_edit = 0
           /\ err = NoErr
           /\ rot = RotIdle
           /\ smcall = SmIdle
           /\ ix = IxIdle
           /\ result = NoResult

(***************************************************************************)
(* rewrite: parse, collect_edits, validate_edits, apply                    *)
(***************************************************************************)
\* parse_astro(source)? returned a tree: the walk starts at the root.
ParseOk ==
    /\ pc = "parse"
    /\ pc' = "walk"
    /\ cursor' = 1
    /\ UNCHANGED <<source, nodes, config, edits, out, out_cursor, next_edit, err, rotVars, callVars>>

\* parse_astro(source)? returned no tree.
ParseFailed ==
    /\ pc = "parse"
    /\ pc' = "failed"
    /\ err' = [kind |-> "ParseFailed"]
    /\ UNCHANGED <<source, nodes, config, cursor, edits, out, out_cursor, next_edit, rotVars, callVars>>

\* An inner loop that gives up after one goto_parent.
NextOrUpOnce(ns, n) ==
    IF goto_next_sibling(ns, n) # 0 THEN goto_next_sibling(ns, n)
    ELSE IF goto_parent(ns, n) = 0 THEN 0
    ELSE goto_next_sibling(ns, goto_parent(ns, n))

\* The inner loop: the next sibling of n, or of its nearest ancestor that has
\* one; 0 when the walk leaves the root.
RECURSIVE NextOrUp(_, _)
NextOrUp(ns, n) ==
    IF goto_next_sibling(ns, n) # 0 THEN goto_next_sibling(ns, n)
    ELSE IF goto_parent(ns, n) = 0 THEN 0
    ELSE NextOrUp(ns, goto_parent(ns, n))

\* One iteration of 'walk; the last one sorts the edits and returns them.
WalkStep ==
    /\ pc = "walk"
    /\ LET collected ==
               IF IsContainer(nodes[cursor].kind)
               THEN edits \o process_container_gaps(source, nodes, cursor, config)
               ELSE edits
           child == goto_first_child(nodes, cursor)
           target == IF child # 0 THEN child ELSE NextOrUp(nodes, cursor)
       IN IF target # 0
          THEN /\ cursor' = target
               /\ edits' = collected
               /\ pc' = "walk"
          ELSE /\ cursor' = 0
               /\ edits' = SortEdits(collected)
               /\ pc' = "validate"
    /\ UNCHANGED <<source, nodes, config, out, out_cursor, next_edit, err, rotVars, callVars>>

\* validate_edits(src.len(), &edits)?
Validate ==
    /\ pc = "validate"
    /\ LET r == validate_edits(Len(source), edits)
       IN IF r.kind = "Ok"
          THEN /\ pc' = "apply"
               /\ next_edit' = 1
               /\ err' = err
          ELSE /\ pc' = "failed"
               /\ next_edit' = next_edit
               /\ err' = r
    /\ UNCHANGED <<source, nodes, config, cursor, edits, out, out_cursor, rotVars, callVars>>

\* The variant of the loop body that leaves out the copy of the unchanged bytes
\* before the edit.
ApplyEditSkippingUnchanged ==
    /\ pc = "apply"
    /\ next_edit <= Len(edits)
    /\ out' = out \o edits[next_edit].replacement
    /\ out_cursor' = edits[next_edit].end
    /\ next_edit' = next_edit + 1
    /\ UNCHANGED <<source, nodes, config, pc, cursor, edits, err, rotVars, callVars>>

\* One iteration of `for edit in &edits`.
ApplyEdit ==
    /\ pc = "apply"
    /\ next_edit <= Len(edits)
    /\ LET edit == edits[next_edit]
       IN /\ out' = out
                    \o (IF out_cursor < edit.start
                        THEN Slice(source, out_cursor, edit.start) ELSE <<>>)
                    \o edit.replacement
          /\ out_cursor' = edit.end
    /\ next_edit' = next_edit + 1
    /\ UNCHANGED <<source, nodes, config, pc, cursor, edits, err, rotVars, callVars>>

\* After the loop: copy the remaining bytes and return (out, edits).
ApplyFinish ==
    /\ pc = "apply"
    /\ next_edit > Len(edits)
    /\ out' = out \o (IF out_cursor < Len(source)
                      THEN Slice(source, out_cursor, Len(source)) ELSE <<>>)
    /\ pc' = "done"
    /\ UNCHANGED <<source, nodes, config, cursor, edits, out_cursor, next_edit, err, rotVars, callVars>>

\* An error return that still hands out the bytes built so far: what C20 rules
\* out.
ReturnErrWithPartialCode ==
    /\ pc = "failed"
    /\ pc' = "returned"
    /\ result' = [kind |-> "Err", error |-> err, code |-> out]
    /\ UNCHANGED <<source, nodes, config, cursor, edits, out, out_cursor, next_edit, err,
                   rotVars, entry, smcall, ix>>

\* rewrite(source, config)? returned Err: the entry point returns that error.
ReturnErr ==
    /\ pc = "failed"
    /\ pc' = "returned"
    /\ result' = [kind |-> "Err", error |-> err]
    /\ UNCHANGED <<source, nodes, config, cursor, edits, out, out_cursor, next_edit, err,
                   rotVars, entry, smcall, ix>>

\* strip_astro_whitespace_no_sourcemap: Ok(code)
ReturnCode ==
    /\ pc = "done"
    /\ entry = "strip_astro_whitespace_no_sourcemap"
    /\ pc' = "returned"
    /\ result' = [kind |-> "Ok", code |-> out]
    /\ UNCHANGED <<source, nodes, config, cursor, edits, out, out_cursor, next_edit, err,
                   rotVars, entry, smcall, ix>>

\* strip_astro_whitespace: create_sourcemap returned Ok, so
\* Ok(CodeAndSourcemap { code, sourcemap }).
ReturnCodeAndSourcemap ==
    /\ pc = "done"
    /\ entry = "strip_astro_whitespace"
    /\ pc' = "returned"
    /\ result' = [kind |-> "Ok", code |-> out,
                  sourcemap |-> create_sourcemap(source, out, SourceFilename, edits),
                  sources |-> create_sourcemap_sources(source, out, SourceFilename, edits),
                  sources_content |-> create_sourcemap_contents(source)]
    /\ UNCHANGED <<source, nodes, config, cursor, edits, out, out_cursor, next_edit, err,
                   rotVars, entry, smcall, ix>>

\* strip_astro_whitespace: out_map.to_writer(&mut buf)? failed inside
\* create_sourcemap; the writer belongs to the sourcemap crate, so whether it
\* fails is not decided here.
ReturnSourceMapErr ==
    /\ pc = "done"
    /\ entry = "strip_astro_whitespace"
    /\ pc' = "returned"
    /\ err' = [kind |-> "SourceMap"]
    /\ result' = [kind |-> "Err", error |-> [kind |-> "SourceMap"]]
    /\ UNCHANGED <<source, nodes, config, cursor, edits, out, out_cursor, next_edit,
                   rotVars, entry, smcall, ix>>

NextPipe ==
    \/ ParseOk \/ ParseFailed \/ WalkStep \/ Validate \/ ApplyEdit \/ ApplyFinish
    \/ ReturnErr \/ ReturnCode \/ ReturnCodeAndSourcemap \/ ReturnSourceMapErr

Spec == InitPipe /\ [][NextPipe]_vars

(***************************************************************************)
(* validate_edits and the apply loop on arbitrary edit lists               *)
(***************************************************************************)
\* strip_astro_whitespace from the validate step of rewrite on, with an edit
\* list chosen freely in the place of what collect_edits returned.
InitEdits ==
    \E list \in SampleEditLists :
        /\ source = SampleInput
        /\ nodes = <<>>
        /\ config = [preserve_blank_lines |-> FALSE]
        /\ pc = "validate"
        /\ cursor = 0
        /\ edits = list
        /\ out = <<>>
        /\ out_cursor = 0
        /\ next_edit = 0
        /\ err = NoErr
        /\ rot = RotIdle
        /\ entry = "strip_astro_whitespace"
        /\ result = NoResult
        /\ smcall = SmIdle
        /\ ix = IxIdle

NextEdits ==
    \/ Validate \/ ApplyEdit \/ ApplyFinish
    \/ ReturnErr \/ ReturnCodeAndSourcemap \/ ReturnSourceMapErr

SpecEdits == InitEdits /\ [][NextEdits]_vars

(***************************************************************************)
(* The rotate functions on arbitrary gaps                                  *)
(***************************************************************************)
PipeIdle ==
    /\ source = <<>>
    /\ nodes = <<>>
    /\ config = [preserve_blank_lines |-> FALSE]
    /\ pc = "idle"
    /\ cursor = 0
    /\ edits = <<>>
    /\ out = <<>>
    /\ out_cursor = 0
    /\ next_edit = 0
    /\ err = NoErr
    /\ entry = "none"
    /\ result = NoResult

\* Where the rotated segment starts in the input of the sample calls.
SampleOffsets == {0, 2}

InitRotate ==
    /\ PipeIdle
    /\ ix = IxIdle
    /\ smcall = SmIdle
    /\ \E g \in SampleGaps, at \in SampleOffsets :
          \/ \E d \in TrailingDelims :
                rot = [pc |-> "call", fn |-> "rotate_delim_over_gap", delim |-> d,
                       prefix |-> <<>>, gap |-> g, at |-> at]
          \/ \E p \in SamplePrefixes :
                rot = [pc |-> "call", fn |-> "rotate_prefix_over_gap", delim |-> None,
                       prefix |-> p, gap |-> g, at |-> at]

Returned(call, r, edit) ==
    [pc |-> "return", fn |-> call.fn, delim |-> call.delim, prefix |-> call.prefix,
     gap |-> call.gap, at |-> call.at, replacement |-> r.replacement,
     input_offset_for_output |-> r.input_offset_for_output, edit |-> edit]

\* Case 1 of process_container_gaps for a delimiter found at offset at: the
\* call of rotate_delim_over_gap and the edit built from its result.
RotateDelim ==
    /\ rot.pc = "call"
    /\ rot.fn = "rotate_delim_over_gap"
    /\ rot' = Returned(rot, rotate_delim_over_gap(rot.delim, rot.gap),
                       DelimEdit(rot.delim, rot.at, rot.gap,
                                 rot.at + DelimLen(rot.delim) + Len(rot.gap)))
    /\ UNCHANGED <<pipeVars, callVars>>

\* Case 2 of process_container_gaps for a gap found at offset at: the call of
\* rotate_prefix_over_gap and the edit built from its result.
RotatePrefix ==
    /\ rot.pc = "call"
    /\ rot.fn = "rotate_prefix_over_gap"
    /\ LET input == [k \in 1..rot.at |-> 120] \o rot.gap \o rot.prefix
       IN rot' = Returned(rot, rotate_prefix_over_gap(rot.prefix, rot.gap),
                          PrefixEdit(input, rot.at, rot.at + Len(rot.gap),
                                     rot.at + Len(rot.gap) + Len(rot.prefix), rot.gap))
    /\ UNCHANGED <<pipeVars, callVars>>

NextRotate == RotateDelim \/ RotatePrefix

SpecRotate == InitRotate /\ [][NextRotate]_vars

(***************************************************************************)
(* Properties of the rotate functions (checked under SpecRotate)           *)
(***************************************************************************)
RotReturned == rot.pc = "return"
DelimReturned == RotReturned /\ rot.fn = "rotate_delim_over_gap"
PrefixReturned == RotReturned /\ rot.fn = "rotate_prefix_over_gap"

\* The input segment of the call: delim + gap, or gap + prefix.
RotSegment ==
    IF rot.fn = "rotate_delim_over_gap" THEN DelimBytes(rot.delim) \o rot.gap
    ELSE rot.gap \o rot.prefix

\* origin is a permutation of 0..n-1 and replacement[i] is the segment byte at
\* origin[i].
IsPermutationOf(replacement, origin, segment) ==
    /\ Len(replacement) = Len(segment)
    /\ Len(origin) = Len(segment)
    /\ {origin[k] : k \in 1..Len(origin)} = 0..(Len(segment) - 1)
    /\ \A k \in 1..Len(origin) : replacement[k] = segment[origin[k] + 1]

\* C2: every rotation is a permutation of its input segment: the replacement
\* has the segment's length, the origin table is a permutation of the segment's
\* offsets and each replacement byte is the segment byte at its origin; no byte,
\* stolen indentation included, is dropped, duplicated or invented.  This holds
\* for rotate_delim_over_gap over delim+gap and rotate_prefix_over_gap over
\* gap+prefix.
C2_RotationIsPermutation ==
    RotReturned =>
        IsPermutationOf(rot.replacement, rot.input_offset_for_output, RotSegment)

\* C2 witness: `/>` rotated over LF SP SP, both indentation bytes relocated.
C2_Witness ==
    /\ DelimReturned
    /\ rot.delim = "SlashGt"
    /\ rot.gap = <<LF, SP, SP>>
    /\ rot.replacement = <<SP, SP, LF, Slash, Gt>>
    /\ rot.input_offset_for_output = <<3, 4, 2, 0, 1>>

\* Length of the run of space/tab bytes that ends the gap.  Such a run holds no
\* LF, so all of it lies on the gap's final line.
RECURSIVE TrailingBlankRun(_)
TrailingBlankRun(gap) ==
    IF gap = <<>> \/ gap[Len(gap)] \notin {SP, TAB} THEN 0
    ELSE 1 + TrailingBlankRun(SubSeq(gap, 1, Len(gap) - 1))

\* The number of bytes C3 says are stolen.
StolenCount(delim, gap) ==
    Min(TrailingBlankRun(gap), IF delim = "SlashGt" THEN 2 ELSE 1)

\* C3: rotate_delim_over_gap(delim, gap) returns S + G' + D: S is the run of
\* space/tab bytes at the very end of the gap (on its final line), at most 2
\* bytes for `/>` and 1 for `>`, `-->`, `}`, in original order; G' is the gap
\* without them; D is the delimiter.  Nothing is stolen when the gap ends with
\* LF or a byte other than space/tab.  The edit built from the result has
\* moved_delim_len = len(D) and its last len(D) bytes originate from
\* edit.start .. edit.start + len(D).
C3_DelimRotationShape ==
    DelimReturned =>
        LET d == DelimLen(rot.delim)
            g == Len(rot.gap)
            k == StolenCount(rot.delim, rot.gap)
            e == rot.edit
            n == Len(e.replacement)
        IN /\ rot.replacement
                = Slice(rot.gap, g - k, g) \o Slice(rot.gap, 0, g - k) \o DelimBytes(rot.delim)
           /\ rot.input_offset_for_output
                = [i \in 1..k |-> d + (g - k) + (i - 1)]
                  \o [i \in 1..(g - k) |-> d + (i - 1)]
                  \o [i \in 1..d |-> i - 1]
           /\ (rot.gap[g] \notin {SP, TAB} => rot.replacement = rot.gap \o DelimBytes(rot.delim))
           /\ e.replacement = rot.replacement
           /\ e.start = rot.at /\ e.end = rot.at + d + g
           /\ e.moved_delim_len = d
           /\ \A i \in 1..d :
                 /\ e.output_byte_to_input_byte[n - d + i] = e.start + (i - 1)
                 /\ e.replacement[n - d + i] = DelimBytes(rot.delim)[i]

\* C3 witness: `/>` steals two bytes of a three-byte indentation, `>` one.
C3_Witness ==
    /\ DelimReturned
    /\ rot.gap = <<LF, TAB, SP>>
    /\ \/ rot.delim = "SlashGt" /\ rot.replacement = <<TAB, SP, LF, Slash, Gt>>
       \/ rot.delim = "Gt" /\ rot.replacement = <<SP, LF, TAB, Gt>>
    /\ rot.edit.moved_delim_len = DelimLen(rot.delim)

\* Number of UTF-16 code units of a byte string holding scalars of the Basic
\* Multilingual Plane: every byte but the UTF-8 continuation bytes starts one.
Utf16Units(bytes) ==
    Cardinality({k \in 1..Len(bytes) : bytes[k] < 128 \/ bytes[k] > 191})

\* Number of line feeds in a byte string.
LineFeeds(bytes) == Cardinality({k \in 1..Len(bytes) : bytes[k] = LF})

\* The bytes after the last LF of a byte string that holds one.
AfterLastLF(bytes) ==
    LET last == CHOOSE k \in 1..Len(bytes) :
                    bytes[k] = LF /\ \A j \in (k + 1)..Len(bytes) : bytes[j] # LF
    IN SubSeq(bytes, last + 1, Len(bytes))

\* (line, column) of the node that follows the segment, relative to the line
\* on which the segment starts; the segment holds a line feed.
NextNodeLine(segment) == LineFeeds(segment)
NextNodeColumn(segment) == Utf16Units(AfterLastLF(segment))

\* The call is a delimiter rotation whose gap begins with a newline followed
\* by indentation.
GapIsNewlineAndIndent ==
    /\ DelimReturned
    /\ Len(rot.gap) >= 2
    /\ rot.gap[1] = LF
    /\ rot.gap[2] \in {SP, TAB}

\* C4 as stated: for every delimiter rotation (`>`, `/>`, `-->`, `}`) whose gap
\* begins with a newline followed by indentation, the node after the gap starts
\* at the same (line, column) in the output as in the input.
C4_ColumnConstant ==
    GapIsNewlineAndIndent =>
        /\ NextNodeLine(rot.replacement) = NextNodeLine(RotSegment)
        /\ NextNodeColumn(rot.replacement) = NextNodeColumn(RotSegment)

\* C4 amended: for every delimiter rotation whose gap begins with a newline
\* followed by indentation, the node after the gap keeps its line, and its
\* column becomes the old column plus len(delim) minus the number of stolen
\* bytes; the column is unchanged exactly when as many bytes are stolen as the
\* delimiter is long: `>` and `}` with one space/tab ending the gap, `/>` with
\* two, and never for `-->`.
C4_ColumnShift ==
    GapIsNewlineAndIndent =>
        LET d == DelimLen(rot.delim)
            k == StolenCount(rot.delim, rot.gap)
            run == TrailingBlankRun(rot.gap)
        IN /\ NextNodeLine(rot.replacement) = NextNodeLine(RotSegment)
           /\ NextNodeColumn(rot.replacement) = NextNodeColumn(RotSegment) + d - k
           /\ (NextNodeColumn(rot.replacement) = NextNodeColumn(RotSegment))
                <=> \/ rot.delim \in {"Gt", "RBrace"} /\ run >= 1
                    \/ rot.delim = "SlashGt" /\ run >= 2

\* C4 witness: `-->` rotated over LF SP SP steals one byte and the next node
\* moves from column 2 to column 4.
C4_Witness ==
    /\ DelimReturned
    /\ rot.delim = "CommentEnd"
    /\ rot.gap = <<LF, SP, SP>>
    /\ rot.replacement = <<SP, LF, SP, Dash, Dash, Gt>>
    /\ NextNodeColumn(RotSegment) = 2
    /\ NextNodeColumn(rot.replacement) = 4

(***************************************************************************)
(* Properties of collect_edits and rewrite (checked under Spec)            *)
(***************************************************************************)
\* collect_edits has returned: the edit list is final.
Collected == pc \in {"validate", "apply", "done"}

\* The pairs <<prev, next>> of adjacent named children of the containers the
\* walk visits (every document or element node of the tree).
SiblingPairs ==
    UNION {LET ch == named_children(nodes, n)
           IN {<<ch[k], ch[k + 1]>> : k \in 1..(Len(ch) - 1)} :
           n \in {m \in 1..Len(nodes) : IsContainer(nodes[m].kind)}}

GapOf(pair) == Slice(source, nodes[pair[1]].end, nodes[pair[2]].start)

\* The gap passes the filters that precede the two rotation cases.
ReachesRotation(pair) ==
    /\ nodes[pair[1]].end < nodes[pair[2]].start
    /\ AllWhitespace(GapOf(pair))
    /\ ~SkipsBlankLine(config, GapOf(pair))

\* The edits whose span intersects [from, to).
EditsIntersecting(from, to) ==
    {k \in 1..Len(edits) : edits[k].start < to /\ from < edits[k].end}

\* The opener prefix C5 names for the kind of next; <<>> for a kind
\* that has none.
ClaimedPrefix(next) ==
    LET kind == nodes[next].kind
        tag == IF kind = "element"
               THEN FirstOfKind(nodes, named_children(nodes, next),
                                {"start_tag", "self_closing_tag"})
               ELSE next
        tag_name == IF tag = 0 THEN 0
                    ELSE FirstOfKind(nodes, named_children(nodes, tag), {"tag_name"})
    IN CASE kind = "html_interpolation" -> <<LBrace>>
         [] kind = "comment" -> <<Lt, Bang, Dash, Dash>>
         [] kind \in {"element", "start_tag", "end_tag", "self_closing_tag"} ->
              IF tag_name = 0 THEN <<>>
              ELSE Slice(source, nodes[tag].start, nodes[tag_name].end)
         [] OTHER -> <<>>

\* Case 2 is the one that applies to the pair.
PrefixCase(pair) ==
    /\ ReachesRotation(pair)
    /\ nodes[pair[1]].kind = "text"
    /\ ~DelimApplies(source, nodes, pair[1])
    /\ opener_prefix_end(source, nodes, pair[2]) # NoOffset
    /\ opener_prefix_end(source, nodes, pair[2]) > nodes[pair[2]].start

\* C5: opener-prefix rotation.  For every sibling gap that reaches the rotation
\* step (non-empty, whitespace-only, not kept as a blank line) with prev a text
\* node, no delimiter rotation applying, and next beginning with an opener
\* prefix (`{`, `<!--`, `<`+tag_name of a tag or of an element's first
\* start_tag/self_closing_tag child) that ends after the gap: exactly one edit
\* is emitted for the gap, it covers [gap_start, prefix_end), its replacement
\* is the prefix followed by the unchanged gap, prefix byte i originates from
\* gap_start+g+i and gap byte j from gap_start+j, no byte is stolen and
\* moved_delim_len = 0.
C5_PrefixRotationEdit ==
    Collected =>
        \A pair \in SiblingPairs :
            PrefixCase(pair) =>
                LET gap_start == nodes[pair[1]].end
                    gap == GapOf(pair)
                    g == Len(gap)
                    prefix == ClaimedPrefix(pair[2])
                    p == Len(prefix)
                    prefix_end == nodes[pair[2]].start + p
                    hit == EditsIntersecting(gap_start, prefix_end)
                IN /\ p > 0
                   /\ prefix_end = opener_prefix_end(source, nodes, pair[2])
                   /\ Cardinality(hit) = 1
                   /\ \A k \in hit :
                         /\ edits[k].start = gap_start
                         /\ edits[k].end = prefix_end
                         /\ edits[k].replacement = prefix \o gap
                         /\ edits[k].output_byte_to_input_byte
                              = [i \in 1..p |-> gap_start + g + (i - 1)]
                                \o [j \in 1..g |-> gap_start + (j - 1)]
                         /\ edits[k].moved_delim_len = 0

\* C5 witness: hi LF SP SP <b/> is rewritten to hi <b LF SP SP /> by the one
\* edit that moves `<b` before the gap.
C5_Witness ==
    /\ pc = "done"
    /\ source = <<104, 105, LF, SP, SP, Lt, 98, Slash, Gt>>
    /\ out = <<104, 105, Lt, 98, LF, SP, SP, Slash, Gt>>
    /\ Len(edits) = 1
    /\ edits[1].start = 2 /\ edits[1].end = 7
    /\ edits[1].moved_delim_len = 0

\* Sibling spans of the tree are ordered and pairwise disjoint.
SiblingSpansDisjoint ==
    \A n \in 1..Len(nodes) :
        LET ch == named_children(nodes, n)
        IN \A k \in 1..(Len(ch) - 1) :
              /\ nodes[ch[k]].start <= nodes[ch[k]].end
              /\ nodes[ch[k]].end <= nodes[ch[k + 1]].start

\* The list is sorted ascending by start and pairwise non-overlapping.
SortedNonOverlapping(list) ==
    \A k \in 1..(Len(list) - 1) :
        /\ list[k].start <= list[k + 1].start
        /\ list[k].end <= list[k + 1].start

\* C6: for every input whose CST has ordered, pairwise disjoint sibling spans,
\* the list returned by collect_edits is sorted ascending by start and pairwise
\* non-overlapping (edits[i].end <= edits[i+1].start), edits of nested
\* containers and the two edits around one node (prefix rotation before it,
\* delimiter rotation after it) included; validate_edits accepts the list, so
\* rewrite fails with neither OverlappingEdits nor InvalidEdit.
C6_EditsSortedDisjoint ==
    SiblingSpansDisjoint =>
        /\ Collected =>
              /\ SortedNonOverlapping(edits)
              /\ validate_edits(Len(source), edits) = Ok
        /\ pc = "failed" => err.kind \notin {"OverlappingEdits", "InvalidEdit"}

\* C6 witness: a finished rewrite whose list holds a prefix rotation ending
\* inside a node and, right after it, the delimiter rotation starting inside
\* the same node, that node being nested in an element.
C6_Witness ==
    /\ pc = "done"
    /\ SiblingSpansDisjoint
    /\ \E n \in 1..Len(nodes), k \in 1..(Len(edits) - 1) :
          /\ nodes[n].parent > 1
          /\ nodes[nodes[n].parent].kind = "element"
          /\ \E prev, next \in 1..Len(nodes) :
                {<<prev, n>>, <<n, next>>} \subseteq SiblingPairs
          /\ edits[k].moved_delim_len = 0
          /\ edits[k].start < nodes[n].start /\ nodes[n].start < edits[k].end
          /\ edits[k].end <= edits[k + 1].start
          /\ edits[k + 1].moved_delim_len > 0
          /\ edits[k + 1].start < nodes[n].end /\ nodes[n].end < edits[k + 1].end

(***************************************************************************)
(* Properties of validate_edits (checked under SpecEdits)                  *)
(***************************************************************************)
\* The conditions C7 lists for one edit taken alone.
EditWellFormed(input_len, e) ==
    /\ e.start <= e.end
    /\ e.end <= input_len
    /\ Len(e.output_byte_to_input_byte) = Len(e.replacement)
    /\ e.moved_delim_len <= Len(e.replacement)
    /\ \A k \in 1..Len(e.output_byte_to_input_byte) :
          e.output_byte_to_input_byte[k] # NoOffset
              => e.output_byte_to_input_byte[k] < input_len

\* Edit k of the list starts before its predecessor ends.
OverlapsPrevious(list, k) == k > 1 /\ list[k].start < list[k - 1].end

\* The outcome of validate_edits on the list of the state: Ok once the apply
\* loop runs, the error rewrite returned otherwise.
Validated == pc \in {"apply", "done", "failed"}
ValidateResult == IF pc = "failed" THEN err ELSE Ok

\* C7: validate_edits(input_len, edits) returns Ok exactly when every edit has
\* start <= end <= input_len, len(origin) = len(replacement), moved_delim_len
\* <= len(replacement), every Some(origin) < input_len, and every edit after
\* the first has start >= the previous edit's end.  An OverlappingEdits error
\* carries the ranges of an edit and its predecessor that violate the last
\* condition; an InvalidEdit error stands for an edit violating one of the
\* others; a list whose only violations are overlaps gets OverlappingEdits and
\* a list without overlaps InvalidEdit.  Every accepted list is sorted
\* ascending by start.
C7_ValidateEdits ==
    Validated =>
        LET n == Len(source)
            r == ValidateResult
            wellFormed == \A k \in 1..Len(edits) : EditWellFormed(n, edits[k])
            overlap == \E k \in 1..Len(edits) : OverlapsPrevious(edits, k)
        IN /\ r = validate_edits(n, edits)
           /\ (r = Ok) <=> (wellFormed /\ ~overlap)
           /\ r.kind \in {"Ok", "OverlappingEdits", "InvalidEdit"}
           /\ r.kind = "OverlappingEdits" =>
                 \E k \in 1..Len(edits) :
                    /\ OverlapsPrevious(edits, k)
                    /\ r = [kind |-> "OverlappingEdits",
                            a_start |-> edits[k - 1].start, a_end |-> edits[k - 1].end,
                            b_start |-> edits[k].start, b_end |-> edits[k].end]
           /\ r.kind = "InvalidEdit" =>
                 \E k \in 1..Len(edits) : ~EditWellFormed(n, edits[k])
           /\ (wellFormed /\ overlap) => r.kind = "OverlappingEdits"
           /\ (~wellFormed /\ ~overlap) => r.kind = "InvalidEdit"
           /\ r = Ok => \A k \in 1..(Len(edits) - 1) : edits[k].start <= edits[k + 1].start

\* C7 witness: two well-formed edits [0, 2) and [1, 2) are rejected with
\* OverlappingEdits carrying both ranges.
C7_Witness ==
    /\ pc = "failed"
    /\ Len(edits) = 2
    /\ EditWellFormed(Len(source), edits[1])
    /\ EditWellFormed(Len(source), edits[2])
    /\ err = [kind |-> "OverlappingEdits", a_start |-> 0, a_end |-> 2,
              b_start |-> 1, b_end |-> 2]

(***************************************************************************)
(* Properties of the apply loop (checked under Spec)                       *)
(***************************************************************************)
\* Offset i of the input lies in the span [start, end) of some edit.
InEditSpan(i) == \E k \in 1..Len(edits) : edits[k].start <= i /\ i < edits[k].end

\* C8: for every successful strip the output has the byte length of the input
\* and output[i] = input[i] for every offset i that lies in no edit span
\* [start, end); inside a span the output bytes are the span's input bytes in
\* another order, each at the place its origin entry names.
C8_IdenticalOutsideEdits ==
    pc = "done" =>
        /\ Len(out) = Len(source)
        /\ \A i \in 0..(Len(source) - 1) : ~InEditSpan(i) => out[i + 1] = source[i + 1]
        /\ \A k \in 1..Len(edits) :
              LET e == edits[k]
              IN /\ Slice(out, e.start, e.end) = e.replacement
                 /\ {e.output_byte_to_input_byte[j] : j \in 1..Len(e.replacement)}
                      = e.start..(e.end - 1)
                 /\ \A j \in 1..Len(e.replacement) :
                       e.replacement[j] = source[e.output_byte_to_input_byte[j] + 1]

\* C8 witness: a finished rewrite with two edits that changed the text and
\* left bytes between them, before the first and after the second in place.
C8_Witness ==
    /\ pc = "done"
    /\ Len(edits) = 2
    /\ out # source
    /\ 0 < edits[1].start
    /\ edits[1].end < edits[2].start
    /\ edits[2].end < Len(source)
    /\ Slice(out, edits[1].end, edits[2].start) = Slice(source, edits[1].end, edits[2].start)

(***************************************************************************)
(* Properties of the blank-line switch (checked under Spec)                *)
(***************************************************************************)
\* The gap holds two consecutive line breaks: LF LF or CR LF CR LF.
HasBlankLine(gap) ==
    \E i \in 0..Len(gap) :
        \/ i + 2 <= Len(gap) /\ Slice(gap, i, i + 2) = <<LF, LF>>
        \/ i + 4 <= Len(gap) /\ Slice(gap, i, i + 4) = <<CR, LF, CR, LF>>

\* The sibling gap is non-empty, whitespace-only and holds a blank line.
BlankLineGap(pair) ==
    /\ nodes[pair[1]].end < nodes[pair[2]].start
    /\ AllWhitespace(GapOf(pair))
    /\ HasBlankLine(GapOf(pair))

\* From prev's trailing delimiter (when its last bytes are one) to the end of
\* next's opener prefix (when it has one): the gap and what stands next to it.
NeighbourhoodStart(pair) ==
    IF DelimApplies(source, nodes, pair[1])
    THEN nodes[pair[1]].end - DelimLen(from_node(nodes, pair[1]))
    ELSE nodes[pair[1]].end

NeighbourhoodEnd(pair) ==
    IF opener_prefix_end(source, nodes, pair[2]) > nodes[pair[2]].start
    THEN opener_prefix_end(source, nodes, pair[2])
    ELSE nodes[pair[2]].start

\* C9: with preserve_blank_lines = true, for every whitespace-only sibling gap
\* holding two consecutive line breaks (LF LF or CR LF CR LF) the collected
\* list has no edit whose span intersects the gap, and the gap, the delimiter
\* before it and the prefix after it are output unchanged; with
\* preserve_blank_lines = false the gap gets the edit any other gap would get:
\* the delimiter rotation when prev ends with its delimiter, else the prefix
\* rotation when prev is text and next has an opener prefix.
C9_PreserveBlankLines ==
    Collected =>
        \A pair \in SiblingPairs :
            BlankLineGap(pair) =>
                LET gap_start == nodes[pair[1]].end
                    gap_end == nodes[pair[2]].start
                    from == NeighbourhoodStart(pair)
                    to == NeighbourhoodEnd(pair)
                IN IF config.preserve_blank_lines
                   THEN /\ EditsIntersecting(gap_start, gap_end) = {}
                        /\ EditsIntersecting(from, to) = {}
                        /\ pc = "done" => Slice(out, from, to) = Slice(source, from, to)
                   ELSE /\ DelimApplies(source, nodes, pair[1]) =>
                              \E k \in 1..Len(edits) :
                                  edits[k] = DelimEdit(from_node(nodes, pair[1]), from,
                                                       GapOf(pair), gap_end)
                        /\ (~DelimApplies(source, nodes, pair[1]) /\ PrefixCase(pair)) =>
                              \E k \in 1..Len(edits) :
                                  edits[k] = PrefixEdit(source, gap_start, gap_end, to,
                                                        GapOf(pair))

\* C9 witness: with preserve_blank_lines = true a gap CR LF CR LF SP after a
\* node that ends with its delimiter comes out unchanged, no edit collected.
C9_Witness ==
    /\ pc = "done"
    /\ config.preserve_blank_lines
    /\ edits = <<>>
    /\ out = source
    /\ \E pair \in SiblingPairs :
          /\ BlankLineGap(pair)
          /\ GapOf(pair) = <<CR, LF, CR, LF, SP>>
          /\ DelimApplies(source, nodes, pair[1])

(***************************************************************************)
(* Properties of the walk below html_interpolation (checked under Spec)    *)
(***************************************************************************)
\* Offset i holds a whitespace byte strictly between the braces of node n.
InteriorWhitespace(n, i) ==
    /\ nodes[n].kind = "html_interpolation"
    /\ nodes[n].start + 1 <= i
    /\ i < nodes[n].end - 1
    /\ source[i + 1] \in {LF, CR, SP, TAB}

\* C10: interpolation interiors are untouched: for every html_interpolation
\* node, no whitespace byte strictly between its `{` and `}`, at any nesting
\* depth, whitespace inside elements nested in the expression included, lies in
\* the span of a collected edit.
C10_InterpolationInteriorUntouched ==
    Collected =>
        \A n \in 1..Len(nodes), i \in 0..(Len(source) - 1) :
            InteriorWhitespace(n, i) => ~InEditSpan(i)

(***************************************************************************)
(* Properties of the byte tables                                           *)
(***************************************************************************)
\* The tables create_sourcemap and rewrite_sourcemap build for the edits and
\* the output of the state.
MapLen == Min(Len(out), compute_output_spans(Len(source), edits).expected_out_len)
OutToIn ==
    build_output_to_input_map(Len(source), MapLen,
                              compute_output_spans(Len(source), edits).spans)
InToOut ==
    build_input_to_output_map(Len(source), MapLen,
                              compute_output_spans(Len(source), edits).spans)

\* C12: byte origins are exact.  For every successful strip the out_to_in table
\* built from the collected edits is defined for every output byte, output[o]
\* is input[out_to_in[o]], and every input byte is the origin of exactly one
\* output byte: out_to_in is a bijection between output and input offsets.
C12_OriginsExact ==
    pc = "done" =>
        LET out_to_in == OutToIn
        IN /\ Len(out_to_in) = Len(out)
           /\ \A o \in 1..Len(out) :
                 /\ out_to_in[o] # NoOffset
                 /\ out_to_in[o] \in 0..(Len(source) - 1)
                 /\ out[o] = source[out_to_in[o] + 1]
           /\ \A i \in 0..(Len(source) - 1) :
                 Cardinality({o \in 1..Len(out) : out_to_in[o] = i}) = 1

\* C12 witness: <!--c--> LF SP SP <b/> with the delimiter moved behind the gap
\* and one indentation byte moved before it; the table names every origin.
C12_Witness ==
    /\ pc = "done"
    /\ source = <<Lt, Bang, Dash, Dash, 99, Dash, Dash, Gt, LF, SP, SP, Lt, 98, Slash, Gt>>
    /\ out = <<Lt, Bang, Dash, Dash, 99, SP, LF, SP, Dash, Dash, Gt, Lt, 98, Slash, Gt>>
    /\ OutToIn = <<0, 1, 2, 3, 4, 10, 8, 9, 5, 6, 7, 11, 12, 13, 14>>

\* out_to_in[o] = Some(i) implies in_to_out[i] = Some(o), for the tables of the
\* state.
TablesConsistent ==
    LET out_to_in == OutToIn
        in_to_out == InToOut
    IN \A o \in 1..Len(out_to_in) :
          out_to_in[o] # NoOffset => in_to_out[out_to_in[o] + 1] = o - 1

\* Every origin table names only bytes of its own edit's span, each at most
\* once: what the rotations of collect_edits produce.
OriginsWithinOwnSpan ==
    \A k \in 1..Len(edits) :
        LET e == edits[k]
            origin == e.output_byte_to_input_byte
        IN \A j \in 1..Len(origin) :
              origin[j] # NoOffset =>
                 /\ e.start <= origin[j] /\ origin[j] < e.end
                 /\ \A m \in 1..Len(origin) : origin[m] = origin[j] => m = j

\* C13 as stated: for every edit list accepted by validate_edits and the output
\* obtained by applying it, whenever out_to_in[o] = Some(i), in_to_out[i] =
\* Some(o).
C13_TablesConsistent == pc = "done" => TablesConsistent

\* C13 amended: for every edit list accepted by validate_edits whose origin
\* tables name only bytes of their own edit's span, each at most once, and the
\* output obtained by applying it, whenever out_to_in[o] = Some(i),
\* in_to_out[i] = Some(o).
C13_TablesConsistentForOwnSpan ==
    (pc = "done" /\ OriginsWithinOwnSpan) => TablesConsistent

\* C13 witness: ab with its two bytes swapped by one edit; both tables are the
\* swap.
C13_Witness ==
    /\ pc = "done"
    /\ OriginsWithinOwnSpan
    /\ out = <<98, 97>>
    /\ OutToIn = <<1, 0>>
    /\ InToOut = <<1, 0>>

(***************************************************************************)
(* Utf16Index on sample texts                                              *)
(***************************************************************************)
\* a, U+1F642 (4 bytes, 2 UTF-16 units), U+3042 (3 bytes, 1 unit), b
LetterA == <<97>>
Emoji == <<240, 159, 153, 130>>
Hiragana == <<227, 129, 130>>
LetterB == <<98>>

\* Repetitions of a U+1F642 U+3042 in the long line: more than
\* CHECKPOINT_STRIDE_CHARS scalars.
LongLineUnits == 22

\* How far past the end of the text, the line count and the line length the
\* sample queries go.
PastEnd == 2

LongLine == Concat([k \in 1..LongLineUnits |-> LetterA \o Emoji \o Hiragana])

\* The long line without its first letter: its 64th scalar is U+1F642.
LongLineShifted == SubSeq(LongLine, 2, Len(LongLine))

\* Lines without a line feed; two of them hold a CR that no LF follows.
ShortLines ==
    {<<>>, LetterA \o Emoji, Hiragana \o LetterB, LetterA \o <<CR>>, <<CR>> \o LetterB}

Terminators == {<<LF>>, <<CR, LF>>}

SampleTexts ==
    ShortLines
    \cup {l1 \o t \o l2 : l1 \in ShortLines, t \in Terminators, l2 \in ShortLines}
    \cup {LongLine, LongLineShifted, LongLine \o <<LF>> \o Hiragana \o LetterB,
          LetterA \o Emoji \o <<CR, LF>> \o LongLineShifted}

InitUtf16 ==
    /\ PipeIdle
    /\ rot = RotIdle
    /\ smcall = SmIdle
    /\ \E s \in SampleTexts : ix = [pc |-> "new", s |-> s]

\* Utf16Index::new(s, &compute_line_starts(s))
IxNew ==
    /\ ix.pc = "new"
    /\ ix' = [pc |-> "ready", s |-> ix.s,
              index |-> Utf16Index_new(ix.s, compute_line_starts(ix.s))]
    /\ UNCHANGED <<pipeVars, rotVars, entry, result, smcall>>

\* idx.byte_to_line_utf16_col(byte)
IxByteToLineCol ==
    /\ ix.pc = "ready"
    /\ \E byte \in 0..(Len(ix.s) + PastEnd) :
          ix' = [pc |-> "byte_to_line_utf16_col", s |-> ix.s, index |-> ix.index,
                 byte |-> byte, ret |-> byte_to_line_utf16_col(ix.index, byte)]
    /\ UNCHANGED <<pipeVars, rotVars, entry, result, smcall>>

\* idx.line_utf16_col_to_byte(line, utf16_col)
IxLineColToByte ==
    /\ ix.pc = "ready"
    /\ \E line \in 0..(Len(ix.index.lines) - 1 + PastEnd) :
          \E col \in 0..((IF line < Len(ix.index.lines)
                          THEN utf16_len(ix.index.lines[line + 1]) ELSE 0) + PastEnd) :
              ix' = [pc |-> "line_utf16_col_to_byte", s |-> ix.s, index |-> ix.index,
                     line |-> line, col |-> col,
                     ret |-> line_utf16_col_to_byte(ix.index, line, col)]
    /\ UNCHANGED <<pipeVars, rotVars, entry, result, smcall>>

NextUtf16 == IxNew \/ IxByteToLineCol \/ IxLineColToByte

SpecUtf16 == InitUtf16 /\ [][NextUtf16]_vars

(***************************************************************************)
(* Naive reference scans over the whole text                               *)
(***************************************************************************)
\* Offsets of the first bytes of the scalars of s.
ScalarStarts(s) == {i \in 0..(Len(s) - 1) : s[i + 1] < 128 \/ s[i + 1] >= 192}

\* Start offsets of the lines of s: 0 and the offset after each line feed.
RefLineStarts(s) == {0} \cup {i \in 1..Len(s) : s[i] = LF}

\* 0-based number of the last line whose start is <= b.
RefLine(s, b) == Cardinality({st \in RefLineStarts(s) : st <= b}) - 1

\* Start offset of the 0-based line.
RefLineStart(s, line) ==
    CHOOSE st \in RefLineStarts(s) :
        Cardinality({x \in RefLineStarts(s) : x < st}) = line

\* UTF-16 units of the scalars that start at or after from and end at or
\* before to.
RefUnits(s, from, to) ==
    LET whole == {i \in ScalarStarts(s) : i >= from /\ i + ScalarLen(s[i + 1]) <= to}
    IN Cardinality(whole) + Cardinality({i \in whole : ScalarLen(s[i + 1]) = 4})

\* C16: byte_to_line_utf16_col(b) answers for every offset, past the end and
\* inside a scalar included: the line is the last line whose start is <= b and
\* the column is the number of UTF-16 units of the scalars of that line that
\* end at or before min(b, line end), wherever the checkpoints fall.
C16_ByteToLineColIsNaive ==
    ix.pc = "byte_to_line_utf16_col" =>
        LET line == RefLine(ix.s, ix.byte)
            start == RefLineStart(ix.s, line)
            end == ix.index.lines[line + 1].end
        IN /\ ix.ret.line = line
           /\ ix.ret.col = RefUnits(ix.s, start, Min(ix.byte, end))

\* An offset inside the U+1F642 that follows the checkpoint after 64 scalars.
C16_Witness ==
    /\ ix.pc = "byte_to_line_utf16_col"
    /\ ix.s = LongLine
    /\ Len(ix.index.lines[1].checkpoints) = 3
    /\ ix.index.lines[1].checkpoints[2] = [byte |-> 169, utf16_col |-> 85]
    /\ ix.byte = 171
    /\ ix.ret = [line |-> 0, col |-> 85]

\* C17: line_utf16_col_to_byte(line, col) is None exactly when the line is out
\* of range; otherwise column 0 is the line start, a column at or past the
\* line's UTF-16 length is the line end, and any other column is the first
\* byte of the scalar that holds that unit, wherever the checkpoints fall.
C17_LineColToByteIsNaive ==
    ix.pc = "line_utf16_col_to_byte" =>
        LET lines == Cardinality(RefLineStarts(ix.s))
        IN IF ix.line >= lines THEN ix.ret = NoOffset
           ELSE LET start == RefLineStart(ix.s, ix.line)
                    end == ix.index.lines[ix.line + 1].end
                IN /\ ix.ret # NoOffset
                   /\ ix.col = 0 => ix.ret = start
                   /\ ix.col >= RefUnits(ix.s, start, end) => ix.ret = end
                   /\ (ix.col > 0 /\ ix.col < RefUnits(ix.s, start, end)) =>
                         /\ ix.ret \in ScalarStarts(ix.s)
                         /\ ix.ret >= start /\ ix.ret < end
                         /\ RefUnits(ix.s, start, ix.ret) <= ix.col
                         /\ ix.col < RefUnits(ix.s, start,
                                              ix.ret + ScalarLen(ix.s[ix.ret + 1]))

\* The second unit of the surrogate pair that follows the checkpoint after 64
\* scalars.
C17_Witness ==
    /\ ix.pc = "line_utf16_col_to_byte"
    /\ ix.s = LongLine
    /\ ix.index.lines[1].checkpoints[2] = [byte |-> 169, utf16_col |-> 85]
    /\ ix.line = 0
    /\ ix.col = 86
    /\ ix.ret = 169

\* Where the columns of the 0-based line end when only terminators are left
\* out: at the line's LF, or at the CR directly before that LF, or at the end
\* of the text for a last line without LF.
RefLineEnd(s, line) ==
    LET start == RefLineStart(s, line)
        feeds == {i \in start..(Len(s) - 1) : s[i + 1] = LF}
    IN IF feeds = {} THEN Len(s)
       ELSE LET lf == CHOOSE i \in feeds : \A j \in feeds : i <= j
            IN IF lf > start /\ s[lf] = CR THEN lf - 1 ELSE lf

\* C18: the columns of every line end before its terminating LF, and before a
\* CR only when that CR is directly followed by the line's LF; an offset at
\* the CR or LF of a terminator reports the full UTF-16 length of the line and
\* every other byte of the line, a CR without LF included, counts.
C18_OnlyTerminatorsExcluded ==
    /\ ix.pc \in {"ready", "byte_to_line_utf16_col", "line_utf16_col_to_byte"} =>
          \A line \in 1..Len(ix.index.lines) :
              ix.index.lines[line].end = RefLineEnd(ix.s, line - 1)
    /\ ix.pc = "byte_to_line_utf16_col" =>
          LET line == RefLine(ix.s, ix.byte)
              start == RefLineStart(ix.s, line)
          IN ix.ret.col = RefUnits(ix.s, start, Min(ix.byte, RefLineEnd(ix.s, line)))

\* The (line, UTF-16 column) of offset b by the naive scan of s.
RefPos(s, b) ==
    LET line == RefLine(s, b)
    IN [line |-> line, col |-> RefUnits(s, RefLineStart(s, line), b)]

\* Every token a lookup at output offset o can return maps to input offset i.
LooksUpTo(tokens, o, i) ==
    LET at == RefPos(out, o)
        found == lookup_token(tokens, at.line, at.col)
    IN /\ found # {}
       /\ \A t \in found :
             /\ t.source = SourceFilename
             /\ t.src_line = RefPos(source, i).line
             /\ t.src_col = RefPos(source, i).col

\* C11: in the map of create_sourcemap, for every edit with a moved
\* delimiter, a lookup at the output position of the delimiter's first byte
\* and of its last byte gives the input position of that delimiter byte, and
\* a lookup at the output position right after the delimiter gives the input
\* position of edit.end, the first byte of the next token.
C11_MovedDelimiterSeparated ==
    (pc = "returned" /\ entry = "strip_astro_whitespace" /\ result.kind = "Ok") =>
        LET spans == compute_output_spans(Len(source), edits).spans
        IN \A k \in 1..Len(spans) :
              LET e == spans[k].edit
                  out_end == spans[k].out_end
              IN e.moved_delim_len > 0 =>
                    /\ LooksUpTo(result.sourcemap, out_end - e.moved_delim_len, e.start)
                    /\ LooksUpTo(result.sourcemap, out_end - 1,
                                 e.start + e.moved_delim_len - 1)
                    /\ out_end < Len(out) =>
                          LooksUpTo(result.sourcemap, out_end, e.end)

\* `<!--c-->`, a newline and two spaces, `<b/>`: the `-->` ends up at output
\* offsets 8..10 and `<` at 11.
C11_Witness ==
    /\ pc = "returned"
    /\ entry = "strip_astro_whitespace"
    /\ result.kind = "Ok"
    /\ source = <<Lt, Bang, Dash, Dash, 99, Dash, Dash, Gt, LF, SP, SP, Lt, 98, Slash, Gt>>
    /\ out = <<Lt, Bang, Dash, Dash, 99, SP, LF, SP, Dash, Dash, Gt, Lt, 98, Slash, Gt>>
    /\ lookup_token(result.sourcemap, 1, 3)
         = {MapToken(1, 3, 0, 7, SourceFilename, NoStr)}
    /\ lookup_token(result.sourcemap, 1, 4)
         = {MapToken(1, 4, 1, 2, SourceFilename, NoStr)}

\* C19: in the map of create_sourcemap every output byte whose origin is None
\* looks up to an unmapped token (no source, src_line = src_col = u32::MAX),
\* never to the mapping of a neighbouring byte.
C19_InsertedBytesUnmapped ==
    (pc = "returned" /\ entry = "strip_astro_whitespace" /\ result.kind = "Ok") =>
        LET out_to_in == OutToIn
        IN \A o \in 0..(Len(out_to_in) - 1) :
              out_to_in[o + 1] = NoOffset =>
                  LET at == RefPos(out, o)
                      found == lookup_token(result.sourcemap, at.line, at.col)
                  IN /\ found # {}
                     /\ \A t \in found :
                           /\ t.source = NoStr
                           /\ t.src_line = U32_MAX
                           /\ t.src_col = U32_MAX

\* C20: when the parser returns no tree, either entry point returns
\* ParseFailed with no edit collected, validated or applied and with neither
\* code nor map; a validator error or a source-map error likewise makes the
\* entry point return the error value alone.
C20_ErrorsAreTotal ==
    /\ err.kind = "ParseFailed" =>
          /\ pc \in {"failed", "returned"}
          /\ edits = <<>> /\ cursor = 0
          /\ next_edit = 0
          /\ out = <<>> /\ out_cursor = 0
    /\ (pc = "returned" /\ err.kind # "None") =>
          /\ DOMAIN result = {"kind", "error"}
          /\ result.kind = "Err"
          /\ result.error = err
    /\ (pc = "returned" /\ err.kind = "None") =>
          /\ result.kind = "Ok"
          /\ result.code = out

\* strip_astro_whitespace returned ParseFailed for a source with a gap.
C20_Witness ==
    /\ pc = "returned"
    /\ entry = "strip_astro_whitespace"
    /\ source = <<Lt, Bang, Dash, Dash, 99, Dash, Dash, Gt, LF, SP, SP, Lt, 98, Slash, Gt>>
    /\ result = [kind |-> "Err", error |-> [kind |-> "ParseFailed"]]

(***************************************************************************)
(* sort_and_dedup_mappings and rewrite_sourcemap on sample calls           *)
(***************************************************************************)
\* The source named by the tokens of the sample upstream maps.
UpstreamSource == "orig.astro"

\* Longest mapping list handed to sort_and_dedup_mappings.
MaxMappings == 3

\* Destinations and source fields of the sample mappings: two columns of one
\* line and the start of the next; unmapped or one of two source positions.
SampleMappings ==
    {MapToken(d[1], d[2], s[1], s[2], s[3], NoStr) :
        d \in {<<0, 0>>, <<0, 1>>, <<1, 0>>},
        s \in {<<U32_MAX, U32_MAX, NoStr>>, <<3, 4, UpstreamSource>>,
               <<5, 6, UpstreamSource>>}}

\* input.replace_range(edit.start..edit.end, &edit.replacement)
apply_single_edit(input, edit) ==
    Slice(input, 0, edit.start) \o edit.replacement \o Slice(input, edit.end, Len(input))

RECURSIVE apply_edits(_, _)
\* The output for a list of ascending, disjoint edits: the last edit is
\* applied first, so that the offsets of the earlier ones still hold.
apply_edits(input, list) ==
    IF list = <<>> THEN input
    ELSE apply_edits(apply_single_edit(input, list[Len(list)]), SubSeq(list, 1, Len(list) - 1))

\* One inserted byte x at offset at.
InsertionAt(at) ==
    [start |-> at, end |-> at, replacement |-> <<120>>,
     output_byte_to_input_byte |-> <<NoOffset>>, moved_delim_len |-> 0]

\* Input code and edits of the sample calls of rewrite_sourcemap:
\* `<a>` LF `<b>` with its `>` rotated, `<!--c-->` LF SP `<b>` with its `-->`
\* rotated, `a` U+1F642 `>` LF `<b>` with its `>` rotated, `<a>` LF `<b>`
\* with the LF deleted, `<a>` LF `<b>` LF `<c>` with both `>` rotated, `<a>` LF
\* with its `>` rotated up to the end of the input and a byte inserted there,
\* and `<a>` LF `<b>` with its `>` rotated and a byte inserted before `<b>`.
SampleRewrites ==
    {[input_code |-> <<Lt, 97, Gt, LF, Lt, 98, Gt>>,
      edits |-> <<DelimEdit("Gt", 2, <<LF>>, 4)>>],
     [input_code |-> <<Lt, Bang, Dash, Dash, 99, Dash, Dash, Gt, LF, SP, Lt, 98, Gt>>,
      edits |-> <<DelimEdit("CommentEnd", 5, <<LF, SP>>, 10)>>],
     [input_code |-> <<97>> \o Emoji \o <<Gt, LF, Lt, 98, Gt>>,
      edits |-> <<DelimEdit("Gt", 5, <<LF>>, 7)>>],
     [input_code |-> <<Lt, 97, Gt, LF, Lt, 98, Gt>>,
      edits |-> <<[start |-> 3, end |-> 4, replacement |-> <<>>,
                   output_byte_to_input_byte |-> <<>>, moved_delim_len |-> 0]>>],
     [input_code |-> <<Lt, 97, Gt, LF, Lt, 98, Gt, LF, Lt, 99, Gt>>,
      edits |-> <<DelimEdit("Gt", 2, <<LF>>, 4), DelimEdit("Gt", 6, <<LF>>, 8)>>],
     [input_code |-> <<Lt, 97, Gt, LF>>,
      edits |-> <<DelimEdit("Gt", 2, <<LF>>, 4), InsertionAt(4)>>],
     [input_code |-> <<Lt, 97, Gt, LF, Lt, 98, Gt>>,
      edits |-> <<DelimEdit("Gt", 2, <<LF>>, 4), InsertionAt(4)>>]}

\* Destinations of the sample upstream tokens in the input code, in ascending
\* order; the last line is out of range and column 9 is past every line end.
SampleDestinations == <<<<0, 0>>, <<0, 2>>, <<0, 3>>, <<0, 9>>, <<1, 0>>, <<1, 1>>, <<2, 0>>>>

\* The mapped upstream token at the k-th sample destination.
UpstreamToken(k) ==
    MapToken(SampleDestinations[k][1], SampleDestinations[k][2], 10, 20 + k,
             UpstreamSource, NoStr)

\* Upstream maps: no token, one token, or two at ascending destinations, each
\* mapped or unmapped.
SampleUpstreamMaps ==
    LET n == Len(SampleDestinations)
        token(k, mapped) ==
            IF mapped THEN UpstreamToken(k)
            ELSE Unmapped(SampleDestinations[k][1], SampleDestinations[k][2])
    IN {<<>>}
       \cup {<<token(k, m)>> : k \in 1..n, m \in BOOLEAN}
       \cup {<<token(p[1], m[1]), token(p[2], m[2])>> :
                p \in {q \in (1..n) \X (1..n) : q[1] < q[2]},
                m \in BOOLEAN \X BOOLEAN}

InitMap ==
    /\ PipeIdle
    /\ rot = RotIdle
    /\ ix = IxIdle
    /\ \/ \E list \in SeqsUpTo(SampleMappings, MaxMappings) :
             smcall = [pc |-> "call", fn |-> "sort_and_dedup_mappings", mappings |-> list]
       \/ \E r \in SampleRewrites, tokens \in SampleUpstreamMaps :
             smcall = [pc |-> "call", fn |-> "rewrite_sourcemap",
                       input_code |-> r.input_code,
                       output_code |-> apply_edits(r.input_code, r.edits),
                       tokens |-> tokens, edits |-> r.edits]

\* sort_and_dedup_mappings(&mut mappings)
SmSortAndDedup ==
    /\ smcall.pc = "call"
    /\ smcall.fn = "sort_and_dedup_mappings"
    /\ smcall' = [pc |-> "return", fn |-> smcall.fn, mappings |-> smcall.mappings,
                  ret |-> sort_and_dedup_mappings(smcall.mappings)]
    /\ UNCHANGED <<pipeVars, rotVars, entry, result, ix>>

\* rewrite_sourcemap(input_code, output_code, input_sourcemap_json, edits)
\* returned Ok.
SmRewrite ==
    /\ smcall.pc = "call"
    /\ smcall.fn = "rewrite_sourcemap"
    /\ smcall' = [pc |-> "return", fn |-> smcall.fn, input_code |-> smcall.input_code,
                  output_code |-> smcall.output_code, tokens |-> smcall.tokens,
                  edits |-> smcall.edits,
                  mappings |-> rewrite_mappings(smcall.input_code, smcall.output_code,
                                                smcall.tokens, smcall.edits),
                  ret |-> [kind |-> "Ok",
                           sourcemap |-> rewrite_sourcemap(smcall.input_code,
                                                           smcall.output_code,
                                                           smcall.tokens, smcall.edits)]]
    /\ UNCHANGED <<pipeVars, rotVars, entry, result, ix>>

\* rewrite_sourcemap returned Err: SourceMap::from_slice or to_writer failed,
\* which the sourcemap crate decides.
SmRewriteErr ==
    /\ smcall.pc = "call"
    /\ smcall.fn = "rewrite_sourcemap"
    /\ smcall' = [pc |-> "return", fn |-> smcall.fn, input_code |-> smcall.input_code,
                  output_code |-> smcall.output_code, tokens |-> smcall.tokens,
                  edits |-> smcall.edits, mappings |-> <<>>,
                  ret |-> [kind |-> "Err", error |-> [kind |-> "SourceMap"]]]
    /\ UNCHANGED <<pipeVars, rotVars, entry, result, ix>>

NextMap == SmSortAndDedup \/ SmRewrite \/ SmRewriteErr

SpecMap == InitMap /\ [][NextMap]_vars

(***************************************************************************)
(* State machine of create_sourcemap and rewrite_sourcemap called with an  *)
(* output_code whose length is not the one the edits imply                 *)
(***************************************************************************)
\* The output the edits produce cut to every length, and the same output
\* with one and with two more bytes, the first of them a line feed.
OutputsOfAnyLength(applied) ==
    {SubSeq(applied, 1, n) : n \in 0..Len(applied)}
    \cup {applied \o <<LF>>, applied \o <<LF, 122>>}

\* Input code and edit list of the sample calls: the edit lists over
\* SampleInput that validate_edits accepts, and the sample rewrites.
BestEffortSamples ==
    {[input_code |-> SampleInput, edits |-> list] :
        list \in {l \in SampleEditLists :
                     validate_edits(Len(SampleInput), l).kind = "Ok"}}
    \cup SampleRewrites

\* Upstream maps of at most one token.
BestEffortUpstreamMaps == {m \in SampleUpstreamMaps : Len(m) <= 1}

InitBestEffort ==
    /\ PipeIdle
    /\ rot = RotIdle
    /\ ix = IxIdle
    /\ \/ \E r \in BestEffortSamples :
             \E output_code \in OutputsOfAnyLength(apply_edits(r.input_code, r.edits)) :
                smcall = [pc |-> "call", fn |-> "create_sourcemap",
                          input_code |-> r.input_code, output_code |-> output_code,
                          tokens |-> <<>>, edits |-> r.edits]
       \/ \E r \in SampleRewrites, tokens \in BestEffortUpstreamMaps :
             \E output_code \in OutputsOfAnyLength(apply_edits(r.input_code, r.edits)) :
                smcall = [pc |-> "call", fn |-> "rewrite_sourcemap",
                          input_code |-> r.input_code, output_code |-> output_code,
                          tokens |-> tokens, edits |-> r.edits]

\* create_sourcemap(input_code, output_code, source_filename, edits)
\* returned Ok.
SmCreate ==
    /\ smcall.pc = "call"
    /\ smcall.fn = "create_sourcemap"
    /\ smcall' = [pc |-> "return", fn |-> smcall.fn, input_code |-> smcall.input_code,
                  output_code |-> smcall.output_code, tokens |-> smcall.tokens,
                  edits |-> smcall.edits, mappings |-> <<>>,
                  ret |-> [kind |-> "Ok",
                           sourcemap |-> create_sourcemap(smcall.input_code,
                                                          smcall.output_code,
                                                          SourceFilename, smcall.edits)]]
    /\ UNCHANGED <<pipeVars, rotVars, entry, result, ix>>

\* create_sourcemap returned Err: to_writer failed, which the sourcemap crate
\* decides.
SmCreateErr ==
    /\ smcall.pc = "call"
    /\ smcall.fn = "create_sourcemap"
    /\ smcall' = [pc |-> "return", fn |-> smcall.fn, input_code |-> smcall.input_code,
                  output_code |-> smcall.output_code, tokens |-> smcall.tokens,
                  edits |-> smcall.edits, mappings |-> <<>>,
                  ret |-> [kind |-> "Err", error |-> [kind |-> "SourceMap"]]]
    /\ UNCHANGED <<pipeVars, rotVars, entry, result, ix>>

NextBestEffort == SmCreate \/ SmCreateErr \/ SmRewrite \/ SmRewriteErr

SpecBestEffort == InitBestEffort /\ [][NextBestEffort]_vars

\* C15: after sort_and_dedup_mappings the list ascends strictly by
\* (dst_line, dst_col), every destination of the list before is there exactly
\* once, and the entry kept for a destination is the earliest mapped
\* candidate, or the earliest candidate when none is mapped.
C15_SortAndDedup ==
    (smcall.pc = "return" /\ smcall.fn = "sort_and_dedup_mappings") =>
        LET before == smcall.mappings
            after == smcall.ret
            same(a, b) == a.dst_line = b.dst_line /\ a.dst_col = b.dst_col
            cands(m) == {k \in 1..Len(before) : same(before[k], m)}
            mapped(m) == {k \in cands(m) : before[k].src_line # U32_MAX}
            pool(m) == IF mapped(m) # {} THEN mapped(m) ELSE cands(m)
        IN /\ \A j \in 1..(Len(after) - 1) :
                 \/ after[j].dst_line < after[j + 1].dst_line
                 \/ /\ after[j].dst_line = after[j + 1].dst_line
                    /\ after[j].dst_col < after[j + 1].dst_col
           /\ \A k \in 1..Len(before) :
                 Cardinality({j \in 1..Len(after) : same(after[j], before[k])}) = 1
           /\ \A j \in 1..Len(after) :
                 /\ cands(after[j]) # {}
                 /\ \E k \in pool(after[j]) :
                       /\ \A m \in pool(after[j]) : k <= m
                       /\ after[j] = before[k]

\* An unmapped entry, then two mapped ones, all at line 0 column 1: the first
\* mapped one stays.
C15_Witness ==
    /\ smcall.pc = "return"
    /\ smcall.fn = "sort_and_dedup_mappings"
    /\ smcall.mappings = <<Unmapped(0, 1), MapToken(0, 1, 3, 4, UpstreamSource, NoStr),
                           MapToken(0, 1, 5, 6, UpstreamSource, NoStr)>>
    /\ smcall.ret = <<MapToken(0, 1, 3, 4, UpstreamSource, NoStr)>>

\* The input byte the naive scan gives for (line, col): NoOffset for a line
\* out of range, else the line start for column 0, the line end for a column
\* at or past the line's length, else the first byte of the scalar that holds
\* the unit.
RefByte(s, line, col) ==
    IF line >= Cardinality(RefLineStarts(s)) THEN NoOffset
    ELSE LET start == RefLineStart(s, line)
             end == RefLineEnd(s, line)
         IN IF col = 0 THEN start
            ELSE IF col >= RefUnits(s, start, end) THEN end
            ELSE CHOOSE i \in {j \in ScalarStarts(s) : j >= start /\ j < end} :
                    /\ RefUnits(s, start, i) <= col
                    /\ col < RefUnits(s, start, i + ScalarLen(s[i + 1]))

\* The output byte that the k-th upstream token of the call lands on, or
\* NoOffset when its line is out of range or its byte is not in the output.
LandsOn(call, k) ==
    LET in_len == Len(call.input_code)
        sp == compute_output_spans(in_len, call.edits)
        map_out_len == Min(Len(call.output_code), sp.expected_out_len)
        in_to_out == build_input_to_output_map(in_len, map_out_len, sp.spans)
        in_byte == RefByte(call.input_code, call.tokens[k].dst_line, call.tokens[k].dst_col)
    IN IF in_byte = NoOffset \/ in_byte >= in_len THEN NoOffset
       ELSE in_to_out[in_byte + 1]

\* The mappings of the returned map at the (line, col) of output byte o.
MappingsAt(call, o) ==
    LET at == RefPos(call.output_code, o)
    IN {j \in 1..Len(call.ret.sourcemap) :
           /\ call.ret.sourcemap[j].dst_line = at.line
           /\ call.ret.sourcemap[j].dst_col = at.col}

SameSource(m, t) ==
    /\ m.src_line = t.src_line
    /\ m.src_col = t.src_col
    /\ m.source = t.source
    /\ m.name = t.name

\* Output bytes at which the edit loop of rewrite_sourcemap places a mapping.
AnchorBytes(call) ==
    LET spans == compute_output_spans(Len(call.input_code), call.edits).spans
    IN UNION {IF spans[k].edit.moved_delim_len = 0 THEN {}
              ELSE {spans[k].out_start, spans[k].out_end,
                    spans[k].out_end - spans[k].edit.moved_delim_len,
                    spans[k].out_end - 1} : k \in 1..Len(spans)}

\* Every mapping of the returned map is at the output position of a token
\* that landed or at an anchor of an edit with a moved delimiter.
NoMappingOfItsOwn(call) ==
    \A j \in 1..Len(call.ret.sourcemap) :
        \E o \in {LandsOn(call, k) : k \in 1..Len(call.tokens)} \cup AnchorBytes(call) :
            o # NoOffset /\ j \in MappingsAt(call, o)

OnItsByte(call, k) ==
    LET in_byte == RefByte(call.input_code, call.tokens[k].dst_line, call.tokens[k].dst_col)
    IN /\ in_byte # NoOffset
       /\ RefPos(call.input_code, in_byte)
            = [line |-> call.tokens[k].dst_line, col |-> call.tokens[k].dst_col]

C21_SingleInlinedSource ==
    (pc = "returned" /\ entry = "strip_astro_whitespace" /\ result.kind = "Ok") =>
        /\ result.sources = <<SourceFilename>>
        /\ result.sources_content = <<source>>
        /\ \A k \in 1..Len(result.sourcemap) :
              LET tok == result.sourcemap[k]
              IN IF tok.src_line = U32_MAX
                 THEN tok.src_col = U32_MAX /\ tok.source = NoStr
                 ELSE tok.source = result.sources[1]

\* A successful call with an edit, whose map holds several mapped tokens.
C21_Witness ==
    /\ pc = "returned" /\ entry = "strip_astro_whitespace" /\ result.kind = "Ok"
    /\ edits # <<>>
    /\ result.code # source
    /\ \E k \in 1..Len(result.sourcemap) : result.sourcemap[k].src_line # U32_MAX
    /\ Len(result.sourcemap) > 2

(***************************************************************************)
(* C22: each gap between adjacent named children of a document or element  *)
(* node yields at most one edit, chosen by priority.  For a non-empty,     *)
(* whitespace-only gap that is not kept as a blank line (C9): when prev's  *)
(* kind selects a delimiter (start_tag/end_tag `>`, self_closing_tag `/>`, *)
(* comment `-->`, html_interpolation `}`, element that of its last named   *)
(* child) and prev's final bytes equal it, the one edit is the delimiter   *)
(* rotation over [prev.end - len(delim), next.start); otherwise there is   *)
(* an edit only if prev is text, and it is a prefix rotation starting at   *)
(* the gap; otherwise there is none.  An empty gap and a gap holding a     *)
(* non-whitespace scalar yield no edit.                                    *)
(***************************************************************************)
RECURSIVE SelectedDelim(_)
\* The delimiter bytes the statement assigns to the kind of n; <<>> if none.
SelectedDelim(n) ==
    LET kind == nodes[n].kind
        ch == named_children(nodes, n)
    IN CASE kind \in {"start_tag", "end_tag"} -> <<Gt>>
         [] kind = "self_closing_tag" -> <<Slash, Gt>>
         [] kind = "comment" -> <<Dash, Dash, Gt>>
         [] kind = "html_interpolation" -> <<RBrace>>
         [] kind = "element" -> IF ch = <<>> THEN <<>> ELSE SelectedDelim(ch[Len(ch)])
         [] OTHER -> <<>>

\* prev's kind selects a delimiter and prev's final bytes are that delimiter.
EndsWithSelectedDelim(prev) ==
    LET d == SelectedDelim(prev)
    IN /\ d # <<>>
       /\ nodes[prev].end - Len(d) >= nodes[prev].start
       /\ Slice(source, nodes[prev].end - Len(d), nodes[prev].end) = d

\* The edits that touch the gap of the pair: those that intersect its bytes,
\* or, for an empty gap, those that span the boundary between prev and next.
EditsOfGap(pair) ==
    LET gap_start == nodes[pair[1]].end
        gap_end == nodes[pair[2]].start
    IN IF gap_start < gap_end THEN EditsIntersecting(gap_start, gap_end)
       ELSE {k \in 1..Len(edits) : edits[k].start < gap_start /\ gap_start < edits[k].end}

RECURSIVE RefOutShift(_)
\* Sum of len(replacement) - (end - start) over the first k edits.
RefOutShift(k) ==
    IF k = 0 THEN 0
    ELSE RefOutShift(k - 1) + Len(edits[k].replacement) - (edits[k].end - edits[k].start)

RefOutStart(k) == edits[k].start + RefOutShift(k - 1)
RefOutEnd(k) == RefOutStart(k) + Len(edits[k].replacement)

\* The mapping the statement describes for output byte o.
RefAnchor(o) ==
    LET at == RefPos(out, o)
        out_to_in == OutToIn
        i == out_to_in[o + 1]
    IN IF i = NoOffset THEN Unmapped(at.line, at.col)
       ELSE MapToken(at.line, at.col, RefPos(source, i).line, RefPos(source, i).col,
                     SourceFilename, NoStr)

\* The output bytes anchored for edit k, in the order of the statement;
\* start_guarded tells whether out_start is held against map_len too.
RefAnchoredBytes(k, start_guarded) ==
    LET d == edits[k].moved_delim_len
    IN (IF start_guarded /\ RefOutStart(k) >= MapLen THEN <<>> ELSE <<RefOutStart(k)>>)
       \o (IF d > 0 THEN <<RefOutEnd(k) - d>> ELSE <<>>)
       \o (IF d > 1 THEN <<RefOutEnd(k) - 1>> ELSE <<>>)
       \o (IF d > 0 /\ RefOutEnd(k) < MapLen THEN <<RefOutEnd(k)>> ELSE <<>>)

\* The output line starts below map_len, ascending.
RefAnchoredLineStarts == SortAsc({st \in RefLineStarts(out) : st < MapLen})

RefMappedBytes(start_guarded) ==
    RefAnchoredLineStarts
    \o Concat([k \in 1..Len(edits) |-> RefAnchoredBytes(k, start_guarded)])

CreatedMap == pc = "returned" /\ entry = "strip_astro_whitespace" /\ result.kind = "Ok"

RewriteReturned ==
    smcall.pc = "return" /\ smcall.fn = "rewrite_sourcemap" /\ smcall.ret.kind = "Ok"

RECURSIVE CallOutShift(_, _)
\* Sum of len(replacement) - (end - start) over the first k edits of the call.
CallOutShift(call, k) ==
    IF k = 0 THEN 0
    ELSE CallOutShift(call, k - 1) + Len(call.edits[k].replacement)
         - (call.edits[k].end - call.edits[k].start)

CallOutStart(call, k) == call.edits[k].start + CallOutShift(call, k - 1)
CallOutEnd(call, k) == CallOutStart(call, k) + Len(call.edits[k].replacement)
CallMapLen(call) ==
    Min(Len(call.output_code), Len(call.input_code) + CallOutShift(call, Len(call.edits)))

\* The upstream source found at input byte i, placed at output byte o.
CarriedFrom(call, o, i) ==
    LET at == RefPos(call.output_code, o)
        from == RefPos(call.input_code, i)
        found == lookup_token(call.tokens, from.line, from.col)
    IN IF found = {} THEN {Unmapped(at.line, at.col)}
       ELSE {MapToken(at.line, at.col, t.src_line, t.src_col, t.source, t.name) :
                t \in found}

\* What an anchor at output byte o may be: unmapped for an inserted byte,
\* otherwise the upstream token of the origin of o.
AnchorAt(call, o) ==
    LET out_to_in == build_output_to_input_map(
                         Len(call.input_code), CallMapLen(call),
                         compute_output_spans(Len(call.input_code), call.edits).spans)
        at == RefPos(call.output_code, o)
    IN IF out_to_in[o + 1] = NoOffset THEN {Unmapped(at.line, at.col)}
       ELSE CarriedFrom(call, o, out_to_in[o + 1])

\* The anchors of edit k as <<kind, output byte>>; boundary_guarded tells
\* whether the boundary anchor also needs edit.end < input length.
RefRewriteAnchors(call, k, boundary_guarded) ==
    LET e == call.edits[k]
        d == e.moved_delim_len
        below(o) == IF o < CallMapLen(call) THEN <<<<"origin", o>>>> ELSE <<>>
    IN IF d = 0 THEN <<>>
       ELSE below(CallOutStart(call, k))
            \o below(CallOutEnd(call, k) - d)
            \o (IF d > 1 THEN below(CallOutEnd(call, k) - 1) ELSE <<>>)
            \o (IF /\ CallOutEnd(call, k) < CallMapLen(call)
                   /\ (boundary_guarded => e.end < Len(call.input_code))
                THEN <<<<"boundary", k>>>> ELSE <<>>)

RefAllRewriteAnchors(call, boundary_guarded) ==
    Concat([k \in 1..Len(call.edits) |-> RefRewriteAnchors(call, k, boundary_guarded)])

\* The mappings pushed by the edit loop: those after the ones of the token
\* loop.
PushedAnchors(call) ==
    LET in_utf16 == Utf16Index_new(call.input_code, compute_line_starts(call.input_code))
        out_utf16 == Utf16Index_new(call.output_code, compute_line_starts(call.output_code))
        in_to_out == build_input_to_output_map(
                         Len(call.input_code), CallMapLen(call),
                         compute_output_spans(Len(call.input_code), call.edits).spans)
        first == Len(TokenMappings(call.tokens, in_utf16, out_utf16, in_to_out))
    IN SubSeq(call.mappings, first + 1, Len(call.mappings))

C24_RewriteAnchors ==
    RewriteReturned =>
        LET expected == RefAllRewriteAnchors(smcall, TRUE)
            pushed == PushedAnchors(smcall)
        IN /\ Len(pushed) = Len(expected)
           /\ \A j \in 1..Len(expected) :
                 IF expected[j][1] = "origin"
                 THEN pushed[j] \in AnchorAt(smcall, expected[j][2])
                 ELSE pushed[j] \in CarriedFrom(smcall, CallOutEnd(smcall, expected[j][2]),
                                                smcall.edits[expected[j][2]].end)

\* The statement as written: a boundary anchor whenever out_end < map_len.
C24_BoundaryWheneverBelowMapLen ==
    RewriteReturned =>
        Len(PushedAnchors(smcall)) = Len(RefAllRewriteAnchors(smcall, FALSE))

\* `<a>` LF `<b>` LF `<c>` with both `>` rotated and upstream tokens at (0, 2)
\* and (1, 0): three anchors per edit, the boundary anchors carrying the
\* token of (1, 0), the start of `<b>`, and for `<c>` the same token again.
C24_Witness ==
    /\ RewriteReturned
    /\ smcall.input_code = <<Lt, 97, Gt, LF, Lt, 98, Gt, LF, Lt, 99, Gt>>
    /\ smcall.tokens = <<UpstreamToken(2), UpstreamToken(5)>>
    /\ PushedAnchors(smcall)
         = <<MapToken(0, 2, 10, 22, UpstreamSource, NoStr),
             MapToken(1, 0, 10, 22, UpstreamSource, NoStr),
             MapToken(1, 1, 10, 25, UpstreamSource, NoStr),
             MapToken(1, 3, 10, 25, UpstreamSource, NoStr),
             MapToken(2, 0, 10, 25, UpstreamSource, NoStr),
             MapToken(2, 1, 10, 25, UpstreamSource, NoStr)>>

(***************************************************************************)
(* C25: the cursor walk of collect_edits visits every node of the tree     *)
(* exactly once, in pre-order, and then ends: each iteration moves the     *)
(* cursor to the next node in pre-order, and the iteration at the last     *)
(* node leaves the loop, so the walk takes one iteration per node.  The    *)
(* gaps of every document/element node are processed exactly once: at      *)
(* every iteration the edits collected so far are those of the containers  *)
(* before the cursor, each taken once, so no gap produces a duplicate.     *)
(***************************************************************************)
RECURSIVE PreOrder(_)
\* The nodes of the subtree of n in pre-order, read off the tree: n, then
\* the subtrees of its children from left to right.
PreOrder(n) ==
    LET children == {m \in 1..Len(nodes) : nodes[m].parent = n}
        LeftToRight(set) ==
            LET RECURSIVE Order(_)
                Order(rest) ==
                    IF rest = {} THEN <<>>
                    ELSE LET m == CHOOSE m \in rest :
                                     \A k \in rest : nodes[m].start <= nodes[k].start
                         IN <<m>> \o Order(rest \ {m})
            IN Order(set)
        order == LeftToRight(children)
    IN <<n>> \o Concat([k \in 1..Len(order) |-> PreOrder(order[k])])

\* The node after n in the pre-order list; 0 after the last.
PreOrderSuccessor(list, n) ==
    LET i == CHOOSE k \in 1..Len(list) : list[k] = n
    IN IF i = Len(list) THEN 0 ELSE list[i + 1]

\* a and b hold the same elements the same number of times.
SameElements(a, b) ==
    /\ Len(a) = Len(b)
    /\ \A x \in {a[k] : k \in 1..Len(a)} \cup {b[k] : k \in 1..Len(b)} :
          Cardinality({k \in 1..Len(a) : a[k] = x})
          = Cardinality({k \in 1..Len(b) : b[k] = x})

\* The containers that precede node n in the pre-order list; all the
\* containers for n = 0.
ContainersBefore(list, n) ==
    LET stop == IF n = 0 THEN Len(list) + 1 ELSE CHOOSE k \in 1..Len(list) : list[k] = n
        IsContainerNode(m) == IsContainer(nodes[m].kind)
    IN SelectSeq(SubSeq(list, 1, stop - 1), IsContainerNode)

\* The gaps of the containers, each taken once: the edits of every pair of
\* adjacent named children, container by container.
EditsOfContainers(containers) ==
    Concat([k \in 1..Len(containers) |->
               LET ch == named_children(nodes, containers[k])
               IN Concat([j \in 1..(Len(ch) - 1) |->
                             GapEdits(source, nodes, ch[j], ch[j + 1], config)])])

C25_WalkVisitsOnceInPreOrder ==
    [][pc = "walk" =>
          LET list == PreOrder(1)
              successor == PreOrderSuccessor(list, cursor)
          IN /\ Len(list) = Len(nodes)
             /\ {list[k] : k \in 1..Len(list)} = 1..Len(nodes)
             /\ cursor \in 1..Len(nodes)
             /\ edits = EditsOfContainers(ContainersBefore(list, cursor))
             /\ IF successor # 0
                THEN pc' = "walk" /\ cursor' = successor
                ELSE /\ pc' = "validate"
                     /\ SameElements(edits', EditsOfContainers(ContainersBefore(list, 0)))]_vars

\* The walk has ended on a tree with an element nested below the top level
\* whose gaps gave edits, next to edits of the document's own gaps.
C25_Witness ==
    /\ pc = "validate"
    /\ cursor = 0
    /\ \E n \in 1..Len(nodes) :
          /\ nodes[n].kind = "element"
          /\ nodes[n].parent # 1
          /\ \E k \in 1..Len(edits) :
                nodes[n].start < edits[k].start /\ edits[k].end < nodes[n].end
    /\ \E k \in 1..Len(edits) :
          \E pair \in SiblingPairs : nodes[pair[1]].parent = 1 /\ k \in EditsOfGap(pair)

C27_ApplyAgreesWithSpans ==
    pc = "done" =>
        LET sp == compute_output_spans(Len(source), edits)
        IN /\ Len(out) = sp.expected_out_len
           /\ sp.expected_out_len = Len(source) + RefOutShift(Len(edits))
           /\ Len(sp.spans) = Len(edits)
           /\ \A k \in 1..Len(edits) :
                 /\ sp.spans[k].edit = edits[k]
                 /\ sp.spans[k].out_start >= 0
                 /\ sp.spans[k].out_start = RefOutStart(k)
                 /\ sp.spans[k].out_end = sp.spans[k].out_start + Len(edits[k].replacement)
                 /\ sp.spans[k].out_end <= Len(out)
                 /\ Slice(out, sp.spans[k].out_start, sp.spans[k].out_end)
                      = edits[k].replacement
           /\ Min(Len(out), sp.expected_out_len) = Len(out)

\* Two edits, the first shortening the text and the second lengthening it
\* again, so that the second span is shifted left before it is written.
C27_Witness ==
    /\ pc = "done"
    /\ Len(edits) = 2
    /\ edits[1].replacement = <<>> /\ edits[1].end > edits[1].start
    /\ Len(edits[2].replacement) = 2 /\ edits[2].end = edits[2].start
    /\ compute_output_spans(Len(source), edits).spans[2].out_start < edits[2].start
    /\ Len(out) > Len(source)

(***************************************************************************)
(* C28: what rewrite and the rotate functions hand to from_utf8 is valid   *)
(* UTF-8.  For a delimiter or prefix and a gap made of whole scalars,      *)
(* every replacement of rotate_delim_over_gap and rotate_prefix_over_gap   *)
(* is a sequence of whole scalars, also when the gap holds multi-byte      *)
(* whitespace: wherever two neighbouring output bytes were not neighbours  *)
(* in the input, the cut falls between scalars, and a byte that lost both  *)
(* of its neighbours is an ASCII byte.  For an input of whole              *)
(* scalars whose node boundaries fall on scalar boundaries, the            *)
(* concatenated output of rewrite is a sequence of whole scalars.          *)
(***************************************************************************)
\* s is a sequence of whole scalars: it starts with a lead byte, and every
\* lead byte is followed by as many continuation bytes as it announces.
WholeScalars(s) ==
    LET starts == ScalarStarts(s)
    IN /\ Len(s) > 0 => 0 \in starts
       /\ \A i \in starts :
             LET n == ScalarLen(s[i + 1])
             IN /\ s[i + 1] < 128 \/ s[i + 1] >= 194
                /\ i + n <= Len(s)
                /\ \A j \in (i + 1)..(i + n - 1) : j \notin starts
                /\ i + n = Len(s) \/ (i + n) \in starts

\* The output offsets k > 0 of the replacement whose byte did not follow its
\* left neighbour in the input segment.
Seams(offsets) == {k \in 1..(Len(offsets) - 1) : offsets[k + 1] # offsets[k] + 1}

C28_OutputIsValidUtf8 ==
    /\ RotReturned =>
          /\ WholeScalars(rot.replacement)
          /\ \A k \in Seams(rot.input_offset_for_output) :
                k \in ScalarStarts(rot.replacement)
          /\ \A k \in 1..Len(rot.replacement) :
                LET offsets == rot.input_offset_for_output
                IN ((k = 1 \/ (k - 1) \in Seams(offsets)) /\ k \in Seams(offsets))
                      => rot.replacement[k] < 128
    /\ (pc = "done" /\ WholeScalars(source)) => WholeScalars(out)

\* `/>` rotated over U+00A0 TAB SP: the space and the tab are taken out of
\* the gap on their own, the two bytes of U+00A0 stay together.
C28_Witness ==
    /\ RotReturned
    /\ rot.fn = "rotate_delim_over_gap"
    /\ rot.delim = "SlashGt"
    /\ rot.gap = <<194, 160, TAB, SP>>
    /\ rot.replacement = <<TAB, SP, 194, 160, Slash, Gt>>

(***************************************************************************)
(* C29: best-effort mapping stays in bounds.  For every edit list that     *)
(* validate_edits accepts and an output_code shorter or longer than the    *)
(* edits imply, create_sourcemap and rewrite_sourcemap work on tables that *)
(* fit: every out_start is non-negative, out_to_in has exactly             *)
(* min(out_len, expected_out_len) entries, each None or an input offset,   *)
(* in_to_out has one entry per input byte, each None or an output offset   *)
(* below that length, and every mapping returned sits at the position of   *)
(* an output byte below that length.                                       *)
(***************************************************************************)
MapReturned ==
    /\ smcall.pc = "return"
    /\ smcall.fn \in {"create_sourcemap", "rewrite_sourcemap"}
    /\ smcall.ret.kind = "Ok"

C29_BestEffortInBounds ==
    MapReturned =>
        LET in_len == Len(smcall.input_code)
            map_len == CallMapLen(smcall)
            sp == compute_output_spans(in_len, smcall.edits)
            out_to_in == build_output_to_input_map(in_len, map_len, sp.spans)
            in_to_out == build_input_to_output_map(in_len, map_len, sp.spans)
            positions == {RefPos(smcall.output_code, o) : o \in 0..(map_len - 1)}
        IN /\ validate_edits(in_len, smcall.edits).kind = "Ok"
           /\ map_len = Min(Len(smcall.output_code), sp.expected_out_len)
           /\ \A k \in 1..Len(sp.spans) :
                 /\ sp.spans[k].out_start >= 0
                 /\ sp.spans[k].out_end >= sp.spans[k].edit.moved_delim_len
           /\ Len(out_to_in) = map_len
           /\ \A o \in 1..Len(out_to_in) :
                 out_to_in[o] = NoOffset \/ out_to_in[o] \in 0..(in_len - 1)
           /\ Len(in_to_out) = in_len
           /\ \A i \in 1..Len(in_to_out) :
                 in_to_out[i] = NoOffset \/ in_to_out[i] \in 0..(map_len - 1)
           /\ \A j \in 1..Len(smcall.ret.sourcemap) :
                 [line |-> smcall.ret.sourcemap[j].dst_line,
                  col |-> smcall.ret.sourcemap[j].dst_col] \in positions

\* rewrite_sourcemap called for `<!--c-->` LF SP `<b>` with an output cut
\* inside the moved delimiter: the anchor of its first byte is kept, those
\* of its last byte and of the following token are not.
C29_Witness ==
    /\ MapReturned
    /\ smcall.fn = "rewrite_sourcemap"
    /\ smcall.input_code = <<Lt, Bang, Dash, Dash, 99, Dash, Dash, Gt, LF, SP, Lt, 98, Gt>>
    /\ smcall.output_code = <<Lt, Bang, Dash, Dash, 99, SP, LF, Dash, Dash>>
    /\ CallMapLen(smcall) = 9
    /\ smcall.tokens = <<UpstreamToken(1)>>
    /\ Len(smcall.mappings) = 3
    /\ Len(smcall.ret.sourcemap) = 3

(***************************************************************************)
(* C30: the two directions of the index round-trip on scalar boundaries.   *)
(* For every byte offset b that is a scalar boundary between the start and *)
(* the end of its line, line_utf16_col_to_byte applied to the result of    *)
(* byte_to_line_utf16_col(b) is Some(b); for every line L and every column *)
(* c in 0..=utf16_len(L) that is not inside a surrogate pair,              *)
(* byte_to_line_utf16_col applied to the result of                         *)
(* line_utf16_col_to_byte(L, c) is (L, c).                                 *)
(***************************************************************************)
\* The scalar boundaries of s, its end included.
ScalarBoundaries(s) == ScalarStarts(s) \cup {Len(s)}

\* The columns of the line [start, end) that begin a scalar or end the line.
BoundaryColumns(s, start, end) ==
    {RefUnits(s, start, b) : b \in {x \in ScalarBoundaries(s) : start <= x /\ x <= end}}

C30_RoundTripOnScalarBoundaries ==
    /\ ix.pc = "byte_to_line_utf16_col" =>
          LET line == RefLine(ix.s, ix.byte)
              start == RefLineStart(ix.s, line)
              end == ix.index.lines[line + 1].end
          IN (ix.byte \in ScalarBoundaries(ix.s) /\ start <= ix.byte /\ ix.byte <= end) =>
                line_utf16_col_to_byte(ix.index, ix.ret.line, ix.ret.col) = ix.byte
    /\ (ix.pc = "line_utf16_col_to_byte" /\ ix.line < Cardinality(RefLineStarts(ix.s))) =>
              LET start == RefLineStart(ix.s, ix.line)
                  end == ix.index.lines[ix.line + 1].end
              IN (ix.col \in BoundaryColumns(ix.s, start, end)) =>
                    /\ ix.ret # NoOffset
                    /\ byte_to_line_utf16_col(ix.index, ix.ret)
                         = [line |-> ix.line, col |-> ix.col]

\* The column after the surrogate pair that follows the checkpoint after 64
\* scalars of the long line, looked up on the second line of a CRLF text.
C30_Witness ==
    /\ ix.pc = "line_utf16_col_to_byte"
    /\ Len(ix.index.lines) >= 2
    /\ ix.line = 1
    /\ Len(ix.index.lines[2].checkpoints) >= 3
    /\ ix.col > 64
    /\ ix.col \in BoundaryColumns(ix.s, RefLineStart(ix.s, 1), ix.index.lines[2].end)
    /\ (ix.col - 1) \notin BoundaryColumns(ix.s, RefLineStart(ix.s, 1), ix.index.lines[2].end)
    /\ byte_to_line_utf16_col(ix.index, ix.ret) = [line |-> 1, col |-> ix.col]

====
